---- MODULE Spec2Model ----
(***************************************************************************)
(* kitchinv: the streaming photo-analysis pipeline.                        *)
(*                                                                         *)
(*   handleStreamPhoto  ->  AreaService.UploadPhotoStream  ->  adapter     *)
(*   (forwarder)            (orchestrator + worker)            goroutine   *)
(*                                                                         *)
(* One area exists (id 1).  Photos, items and blobs are the rows of the    *)
(* SQLite tables and the files of the photo storage.  Every store call is  *)
(* one atomic step and may fail; the two channels are bounded FIFO queues. *)
(***************************************************************************)
EXTENDS Integers, Sequences, FiniteSets, TLC

\* ------------------------------------------------------------------ bounds
MaxUploads == 1        \* upload requests per behaviour, one after the other
RaceUploads == 2       \* upload requests in progress at the same time
RaceEmit   == 2        \* items of a backend stream where requests overlap
MaxDeletes == 1        \* DeletePhoto requests per behaviour
MaxLineLen == 7        \* characters of a line handed to ParseLine
MaxRawLen  == 6        \* characters of a text handed to ParseResponse
MaxTextLen == 5        \* characters of a text the backend sends in chunks
MaxEmit    == 3        \* items of a short backend stream
LongEmit   == 19       \* items of the long backend stream (more than both buffers)
MaxLines   == 2        \* lines of a short response body
LongLines  == 17       \* item lines of the long response body (more than one buffer)
LiveLines  == 1        \* lines of a short response body, where termination is checked
MaxClock   == 1        \* wall-clock seconds that can pass (uploaded_at resolution 1 s)

\* ------------------------------------------------------- program constants
ChanCap == 16          \* make(chan vision.StreamEvent, 16)

Requests == 1..MaxUploads
Racers   == 1..RaceUploads
Uploads  == Requests \cup Racers
AreaID  == 1           \* the one existing area
Milk    == 1
Butter  == 2
OrangeJuice == 3

NoPhoto == [id |-> 0, key |-> 0, ts |-> 0]
NoEvent == [item |-> 0, err |-> FALSE]
ItemEvent(n) == [item |-> n, err |-> FALSE]
ErrEvent     == [item |-> 0, err |-> TRUE]

EndModes == {"done", "readerr", "eof"}

VARIABLES
    photos,      \* table photos of the area: set of [id, key, ts]
    items,       \* table items of the area: set of [id, photo, name]
    blobs,       \* photo storage: set of storage keys
    ids,         \* [photo, item, key]: next AUTOINCREMENT ids / next storage key
    now,         \* datetime('now'), in seconds
    streaming,   \* does the configured vision adapter implement StreamAnalyzer
    svc,         \* per upload: the UploadPhotoStream call
    adp,         \* per upload: the adapter goroutine and its channel
    wrk,         \* per upload: the worker goroutine and the out channel
    fwd,         \* per upload: the handler's forwarding loop and the response
    logs,        \* per upload: error messages logged
    rdr,         \* a concurrent GetAreaWithItems call
    ana,         \* one AnalyzeStream call of an adapter, in detail
    foreignKeys, \* does the database connection enforce foreign keys
    del,         \* a DeletePhoto call
    prs          \* a call of the line parser

vars == <<photos, items, blobs, ids, now, streaming, svc, adp, wrk, fwd, logs, rdr, ana,
          foreignKeys, del, prs>>

\* ----------------------------------------------------------------- helpers
\* GetLatestByAreaID: ORDER BY uploaded_at DESC LIMIT 1.  uploaded_at has a
\* resolution of one second and the query has no tie-break, so any photo with
\* the greatest uploaded_at can be the row returned.
LatestCandidates(ps) == {p \in ps : \A q \in ps : q.ts <= p.ts}

GetLatestByAreaID(ps) == IF ps = {} THEN {NoPhoto} ELSE LatestCandidates(ps)

\* The names of the items linked to photo id pid, in order of insertion (id).
RECURSIVE SortedById(_)
SortedById(S) ==
    IF S = {} THEN <<>>
    ELSE LET m == CHOOSE x \in S : \A y \in S : x.id <= y.id
         IN  <<m>> \o SortedById(S \ {m})

NamesOf(seq) == [i \in 1..Len(seq) |-> seq[i].name]

ItemsOfPhoto(pid) == NamesOf(SortedById({i \in items : i.photo = pid}))

\* ORDER BY name ASC: "Butter" < "Milk" < "Orange Juice"; the other names of a
\* stream sort after these, in the order of their numbers.
NameRank(n) == CASE n = Butter -> 1 [] n = Milk -> 2 [] OTHER -> n

\* The rows ItemStore.ListByAreaID returns for the records its: sorted by name
\* (rows of equal name are taken here by id; their names are the same).
RECURSIVE OrderByName(_)
OrderByName(its) ==
    IF its = {} THEN <<>>
    ELSE LET m == CHOOSE x \in its : \A y \in its :
                      \/ NameRank(x.name) < NameRank(y.name)
                      \/ NameRank(x.name) = NameRank(y.name) /\ x.id <= y.id
         IN  <<m>> \o OrderByName(its \ {m})

ListedNames(its) == NamesOf(OrderByName(its))

\* The item names carried by a sequence of events (error events left out).
RECURSIVE EventNames(_)
EventNames(evs) ==
    IF evs = <<>> THEN <<>>
    ELSE IF Head(evs).err THEN EventNames(Tail(evs))
         ELSE <<Head(evs).item>> \o EventNames(Tail(evs))

IsPrefix(s, t) == Len(s) <= Len(t) /\ SubSeq(t, 1, Len(s)) = s

\* s is a subsequence of t (order kept, nothing repeated that t does not repeat).
RECURSIVE IsSubSeq(_, _)
IsSubSeq(s, t) ==
    IF s = <<>> THEN TRUE
    ELSE IF t = <<>> THEN FALSE
    ELSE IF Head(s) = Head(t) THEN IsSubSeq(Tail(s), Tail(t))
         ELSE IsSubSeq(s, Tail(t))

\* The backend's stream of n item lines: names 1..n, in emission order.
Script(n) == [i \in 1..n |-> i]

\* ------------------------------------------------- vision.ParseLine / text
\* Text is a sequence of characters.  strings.TrimSpace, strings.Contains and
\* strings.Split as the parser uses them.
IsSpace(c) == c \in {" ", "\n"}

RECURSIVE TrimLeft(_)
TrimLeft(s) == IF s # <<>> /\ IsSpace(Head(s)) THEN TrimLeft(Tail(s)) ELSE s

RECURSIVE TrimRight(_)
TrimRight(s) ==
    IF s # <<>> /\ IsSpace(s[Len(s)]) THEN TrimRight(SubSeq(s, 1, Len(s) - 1)) ELSE s

TrimSpace(s) == TrimRight(TrimLeft(s))

Contains(s, c) == \E i \in 1..Len(s) : s[i] = c

RECURSIVE Split(_, _)
Split(s, sep) ==
    IF ~Contains(s, sep) THEN <<s>>
    ELSE LET i == CHOOSE k \in 1..Len(s) : s[k] = sep /\ \A j \in 1..(k - 1) : s[j] # sep
         IN  <<SubSeq(s, 1, i - 1)>> \o Split(SubSeq(s, i + 1, Len(s)), sep)

\* A nil *DetectedItem.  ParseLine never returns an item with an empty name.
NoItem == [name |-> <<>>, quantity |-> <<>>, notes |-> <<>>]

\* Mutant: a line without a separator is taken as a name.
ParseLine_NoSeparatorCheck(line) ==
    LET Fields(parts) ==
            [name     |-> TrimSpace(parts[1]),
             quantity |-> IF Len(parts) >= 2 THEN TrimSpace(parts[2]) ELSE <<>>,
             notes    |-> IF Len(parts) >= 3 THEN TrimSpace(parts[3]) ELSE <<>>]
        Parse(l) ==
            LET item == Fields(Split(l, "|"))
            IN  IF l = <<>> THEN NoItem
                ELSE IF item.name = <<>> THEN NoItem
                ELSE item
    IN  CHOOSE item \in {Parse(l) : l \in {TrimSpace(line)}} : TRUE

\* Mutant: the notes are taken from the last field, not the third.
ParseLine_NotesLast(line) ==
    LET Fields(parts) ==
            [name     |-> TrimSpace(parts[1]),
             quantity |-> IF Len(parts) >= 2 THEN TrimSpace(parts[2]) ELSE <<>>,
             notes    |-> IF Len(parts) >= 3 THEN TrimSpace(parts[Len(parts)]) ELSE <<>>]
        Parse(l) ==
            LET item == Fields(Split(l, "|"))
            IN  IF l = <<>> THEN NoItem
                ELSE IF ~Contains(l, "|") THEN NoItem
                ELSE IF item.name = <<>> THEN NoItem
                ELSE item
    IN  CHOOSE item \in {Parse(l) : l \in {TrimSpace(line)}} : TRUE

\* l is the trimmed line (line = strings.TrimSpace(line)).
ParseLine(line) ==
    LET Fields(parts) ==
            [name     |-> TrimSpace(parts[1]),
             quantity |-> IF Len(parts) >= 2 THEN TrimSpace(parts[2]) ELSE <<>>,
             notes    |-> IF Len(parts) >= 3 THEN TrimSpace(parts[3]) ELSE <<>>]
        Parse(l) ==
            LET item == Fields(Split(l, "|"))
            IN  IF l = <<>> THEN NoItem
                ELSE IF ~Contains(l, "|") THEN NoItem
                ELSE IF item.name = <<>> THEN NoItem
                ELSE item
    IN  CHOOSE item \in {Parse(l) : l \in {TrimSpace(line)}} : TRUE

RECURSIVE ParseLines(_)
ParseLines(lines) ==
    IF lines = <<>> THEN <<>>
    ELSE LET item == ParseLine(Head(lines))
         IN  (IF item = NoItem THEN <<>> ELSE <<item>>) \o ParseLines(Tail(lines))

\* Mutant: the text is handed to ParseLine whole.
ParseResponse_Whole(raw) == ParseLines(<<raw>>)

ParseResponse(raw) == ParseLines(Split(raw, "\n"))

\* The items of the lines of raw that are terminated by a newline.
CompleteLines(raw) ==
    LET lines == Split(raw, "\n") IN ParseLines(SubSeq(lines, 1, Len(lines) - 1))

\* --------------------------------------------- the backend's response body
\* What bufio.Scanner yields, line by line.  For Ollama a line is a JSON chunk
\* {response, done}; for Claude it is an SSE line: a text delta, "data: [DONE]",
\* or a line the loop passes over.  A bad line does not unmarshal.
Chunk(text, done) == [kind |-> "chunk", text |-> text, done |-> done]
BadLine   == [kind |-> "bad", text |-> <<>>, done |-> FALSE]
DoneLine  == [kind |-> "[DONE]", text |-> <<>>, done |-> FALSE]
OtherLine == [kind |-> "other", text |-> <<>>, done |-> FALSE]

Texts == { <<"a", "|", "\n">>,
           <<"b", "|">>,
           <<"\n">>,
           <<"a", "|", "\n", "b", "|", "\n">> }

Kinds == {"ollama", "claude"}

LinesOf(kind) ==
    IF kind = "ollama"
    THEN {Chunk(t, d) : t \in Texts, d \in BOOLEAN} \cup {BadLine}
    ELSE {Chunk(t, FALSE) : t \in Texts} \cup {BadLine, DoneLine, OtherLine}

\* The long body: LongLines item lines, one per chunk, then the completion marker.
LongBody(kind) ==
    [i \in 1..LongLines |-> Chunk(IF i % 2 = 1 THEN <<"a", "|", "\n">> ELSE <<"b", "|", "\n">>, FALSE)]
        \o (IF kind = "ollama" THEN <<Chunk(<<>>, TRUE)>> ELSE <<DoneLine>>)

Bodies(kind, n) ==
    UNION {[1..k -> LinesOf(kind)] : k \in 0..n} \cup {LongBody(kind)}

\* StreamEvent{Err: ...} of an adapter.
StreamErr == [item |-> NoItem, err |-> TRUE]

\* One AnalyzeStream call.  sent, seen, failAt, failSeen and late are history:
\* the events sent so far, the text taken from well-formed chunks, the number
\* of events sent and of characters taken when the transport first failed
\* (failAt = -1: it has not), and the kinds of event sent while ctx was
\* cancelled.
AnaIdle == [kind |-> "ollama", status |-> 200, body |-> <<>>, endMode |-> "eof",
            pc |-> "idle", pos |-> 0, cpos |-> 0, lineBuf |-> <<>>,
            scanErr |-> "none", ch |-> <<>>, closed |-> FALSE,
            bodyOpen |-> FALSE, started |-> FALSE, cancelled |-> FALSE,
            consumer |-> "recv", got |-> <<>>,
            sent |-> <<>>, seen |-> <<>>, failAt |-> -1, failSeen |-> 0, late |-> {}]

AnaStarts(n) ==
    UNION {{[AnaIdle EXCEPT !.pc = "call", !.kind = k, !.body = b, !.endMode = e] :
               b \in Bodies(k, n), e \in {"eof", "readerr"}} : k \in Kinds}
    \cup {[AnaIdle EXCEPT !.pc = "call", !.kind = k, !.status = 500] : k \in Kinds}

\* ------------------------------------------------------------------- Init
SvcIdle == [pc |-> "idle", outcome |-> "none", area |-> 0, script |-> <<>>,
            endMode |-> "done", photo |-> NoPhoto, key |-> 0, deletes |-> 0,
            accepted |-> FALSE, atAccept |-> {},
            pre |-> [photos |-> {}, items |-> {}, blobs |-> {}]]
AdpIdle == [pc |-> "idle", pos |-> 0, ch |-> <<>>, closed |-> FALSE]
WrkIdle == [pc |-> "idle", hand |-> NoEvent, out |-> <<>>, closed |-> FALSE,
            skipped |-> <<>>, row |-> 0]
FwdIdle == [pc |-> "idle", hand |-> NoEvent, cancelled |-> FALSE, resp |-> <<>>,
            done |-> FALSE, delivered |-> <<>>, late |-> {}]
RdrIdle == [pc |-> "idle", items |-> {}, photo |-> NoPhoto, from |-> {}, within |-> {},
            window |-> {}, inWindow |-> {}]
DelIdle == [pc |-> "idle", photo |-> NoPhoto, outcome |-> "none", gone |-> {},
            calls |-> 0, logged |-> FALSE]
PrsIdle == [pc |-> "idle", line |-> <<>>, item |-> NoItem, raw |-> <<>>, pos |-> 0,
            lineBuf |-> <<>>, batch |-> <<>>, streamed |-> <<>>]

\* The area is either empty or holds the result of an earlier upload:
\* photo 1 with the items Milk and Butter.
InitStore(prior) ==
    /\ photos = IF prior THEN {[id |-> 1, key |-> 1, ts |-> 0]} ELSE {}
    /\ blobs  = IF prior THEN {1} ELSE {}
    /\ items  = IF prior THEN {[id |-> 1, photo |-> 1, name |-> Milk],
                               [id |-> 2, photo |-> 1, name |-> Butter]}
                         ELSE {}
    /\ ids    = IF prior THEN [photo |-> 2, item |-> 3, key |-> 2]
                         ELSE [photo |-> 1, item |-> 1, key |-> 1]

Init ==
    /\ \E prior \in BOOLEAN : InitStore(prior)
    /\ now = 0
    /\ streaming \in BOOLEAN
    /\ svc  = [u \in Uploads |-> SvcIdle]
    /\ adp  = [u \in Uploads |-> AdpIdle]
    /\ wrk  = [u \in Uploads |-> WrkIdle]
    /\ fwd  = [u \in Uploads |-> FwdIdle]
    /\ logs = [u \in Uploads |-> {}]
    /\ rdr  = RdrIdle
    /\ ana  = AnaIdle
    /\ foreignKeys = TRUE
    /\ del  = DelIdle
    /\ prs  = PrsIdle

\* --------------------------------------------- handleStreamPhoto: request
InCall(u) == svc[u].pc \in {"lookup", "assert", "save", "create", "analyze", "delete"}

InFlight(u) ==
    \/ InCall(u)
    \/ adp[u].pc = "run"
    \/ wrk[u].pc \notin {"idle", "done"}
    \/ fwd[u].pc \notin {"idle", "returned"}

\* A request POST /areas/{id}/photos/stream arrives: the form is parsed, the
\* image validated, and UploadPhotoStream is called with a context detached
\* from the request.  The backend's answer to this photo (n item lines and how
\* the stream ends) is fixed here; it is read only by the adapter.
handleStreamPhoto(u, area, n, end) ==
    /\ svc[u].pc = "idle"
    /\ \A v \in Uploads : v < u => svc[v].pc # "idle"
    /\ svc' = [svc EXCEPT ![u] = [SvcIdle EXCEPT
                  !.pc = "lookup", !.area = area, !.script = Script(n),
                  !.endMode = end,
                  !.pre = [photos |-> photos, items |-> items, blobs |-> blobs]]]
    /\ fwd' = [fwd EXCEPT ![u].pc = "calling"]
    /\ UNCHANGED <<photos, items, blobs, ids, now, streaming, adp, wrk, logs, rdr, ana, foreignKeys, del, prs>>

\* UploadPhotoStream returns an error: the handler answers 500 and returns.
ReturnErr(u, outcome) ==
    /\ svc' = [svc EXCEPT ![u].pc = "returned", ![u].outcome = outcome]
    /\ fwd' = [fwd EXCEPT ![u].pc = "returned"]

\* ------------------------------------------ AreaService.UploadPhotoStream
GetByID_Found(u) ==
    /\ svc[u].pc = "lookup"
    /\ svc[u].area = AreaID
    /\ svc' = [svc EXCEPT ![u].pc = "assert"]
    /\ UNCHANGED <<photos, items, blobs, ids, now, streaming, adp, wrk, fwd, logs, rdr, ana, foreignKeys, del, prs>>

GetByID_NotFound(u) ==
    /\ svc[u].pc = "lookup"
    /\ svc[u].area # AreaID
    /\ ReturnErr(u, "not_found")
    /\ UNCHANGED <<photos, items, blobs, ids, now, streaming, adp, wrk, logs, rdr, ana, foreignKeys, del, prs>>

StreamAnalyzer_OK(u) ==
    /\ svc[u].pc = "assert"
    /\ streaming
    /\ svc' = [svc EXCEPT ![u].pc = "save"]
    /\ UNCHANGED <<photos, items, blobs, ids, now, streaming, adp, wrk, fwd, logs, rdr, ana, foreignKeys, del, prs>>

StreamAnalyzer_Unsupported(u) ==
    /\ svc[u].pc = "assert"
    /\ ~streaming
    /\ ReturnErr(u, "unsupported")
    /\ UNCHANGED <<photos, items, blobs, ids, now, streaming, adp, wrk, logs, rdr, ana, foreignKeys, del, prs>>

Save_OK(u) ==
    /\ svc[u].pc = "save"
    /\ blobs' = blobs \cup {ids.key}
    /\ ids' = [ids EXCEPT !.key = @ + 1]
    /\ svc' = [svc EXCEPT ![u].pc = "create", ![u].key = ids.key]
    /\ UNCHANGED <<photos, items, now, streaming, adp, wrk, fwd, logs, rdr, ana, foreignKeys, del, prs>>

\* Mutant: the file Save had written stays, and nothing is logged.
Save_Err_KeepsFile(u, removed) ==
    /\ svc[u].pc = "save"
    /\ blobs' = blobs \cup {ids.key}
    /\ ids' = [ids EXCEPT !.key = @ + 1]
    /\ svc' = [svc EXCEPT ![u].pc = "returned", ![u].outcome = "save_failed"]
    /\ fwd' = [fwd EXCEPT ![u].pc = "returned"]
    /\ UNCHANGED <<photos, items, now, streaming, adp, wrk, logs, rdr, ana, foreignKeys, del, prs>>

\* photoStg.Save fails.  LocalPhotoStore.Save removes the file it had begun to
\* write; when that removal fails too (logged) the partial file stays in the
\* storage, under a name the service never learns.
Save_Err(u, removed) ==
    /\ svc[u].pc = "save"
    /\ blobs' = IF removed THEN blobs ELSE blobs \cup {ids.key}
    /\ ids' = IF removed THEN ids ELSE [ids EXCEPT !.key = @ + 1]
    /\ logs' = [logs EXCEPT ![u] = @ \cup (IF removed THEN {} ELSE {"remove file after write error"})]
    /\ ReturnErr(u, "save_failed")
    /\ UNCHANGED <<photos, items, now, streaming, adp, wrk, rdr, ana, foreignKeys, del, prs>>

\* Mutant: the old items are cleared as soon as the photo record exists,
\* before the adapter has been asked.
PhotoCreate_OK_ClearsItems(u) ==
    /\ svc[u].pc = "create"
    /\ LET p == [id |-> ids.photo, key |-> svc[u].key, ts |-> now]
       IN  /\ photos' = photos \cup {p}
           /\ svc' = [svc EXCEPT ![u].pc = "analyze", ![u].photo = p]
    /\ ids' = [ids EXCEPT !.photo = @ + 1]
    /\ items' = {}
    /\ UNCHANGED <<blobs, now, streaming, adp, wrk, fwd, logs, rdr, ana, foreignKeys, del, prs>>

\* photoStore.Create: the new row gets the next id and uploaded_at = now.
PhotoCreate_OK(u) ==
    /\ svc[u].pc = "create"
    /\ LET p == [id |-> ids.photo, key |-> svc[u].key, ts |-> now]
       IN  /\ photos' = photos \cup {p}
           /\ svc' = [svc EXCEPT ![u].pc = "analyze", ![u].photo = p]
    /\ ids' = [ids EXCEPT !.photo = @ + 1]
    /\ UNCHANGED <<items, blobs, now, streaming, adp, wrk, fwd, logs, rdr, ana, foreignKeys, del, prs>>

\* photoStore.Create fails: the blob is deleted, best effort (its error is dropped).
PhotoCreate_Err(u, stgOK) ==
    /\ svc[u].pc = "create"
    /\ blobs' = IF stgOK THEN blobs \ {svc[u].key} ELSE blobs
    /\ ReturnErr(u, "create_failed")
    /\ UNCHANGED <<photos, items, ids, now, streaming, adp, wrk, logs, rdr, ana, foreignKeys, del, prs>>

\* Mutant: the worker goroutine is started before the old items are deleted.
AnalyzeStream_OK_StartsWorker(u) ==
    /\ svc[u].pc = "analyze"
    /\ svc' = [svc EXCEPT ![u].pc = "delete", ![u].accepted = TRUE, ![u].atAccept = items]
    /\ adp' = [adp EXCEPT ![u].pc = "run"]
    /\ wrk' = [wrk EXCEPT ![u].pc = "recv"]
    /\ UNCHANGED <<photos, items, blobs, ids, now, streaming, fwd, logs, rdr, ana, foreignKeys, del, prs>>

\* AnalyzeStream returns a channel: the adapter goroutine is running.
\* atAccept is history: the items the area holds at this moment.
AnalyzeStream_OK(u) ==
    /\ svc[u].pc = "analyze"
    /\ svc' = [svc EXCEPT ![u].pc = "delete", ![u].accepted = TRUE, ![u].atAccept = items]
    /\ adp' = [adp EXCEPT ![u].pc = "run"]
    /\ UNCHANGED <<photos, items, blobs, ids, now, streaming, wrk, fwd, logs, rdr, ana, foreignKeys, del, prs>>

\* Mutant: the rollback deletes every photo record of the area (DeleteByArea)
\* instead of the new one (Delete by id).
AnalyzeStream_Err_DeleteByArea(u, dbOK, stgOK) ==
    /\ svc[u].pc = "analyze"
    /\ photos' = IF dbOK THEN {} ELSE photos
    /\ blobs' = IF stgOK THEN blobs \ {svc[u].key} ELSE blobs
    /\ logs' = [logs EXCEPT ![u] = @ \cup (IF dbOK THEN {} ELSE {"rollback photo record"})
                                       \cup (IF stgOK THEN {} ELSE {"rollback photo file"})]
    /\ svc' = [svc EXCEPT ![u].pc = "returned", ![u].outcome = "setup_failed"]
    /\ fwd' = [fwd EXCEPT ![u].pc = "returned"]
    /\ UNCHANGED <<items, ids, now, streaming, adp, wrk, rdr, ana, foreignKeys, del, prs>>

\* Mutant: the rollback also clears the area's items.
AnalyzeStream_Err_ClearsItems(u, dbOK, stgOK) ==
    /\ svc[u].pc = "analyze"
    /\ photos' = IF dbOK THEN photos \ {svc[u].photo} ELSE photos
    /\ blobs' = IF stgOK THEN blobs \ {svc[u].key} ELSE blobs
    /\ items' = {}
    /\ logs' = [logs EXCEPT ![u] = @ \cup (IF dbOK THEN {} ELSE {"rollback photo record"})
                                       \cup (IF stgOK THEN {} ELSE {"rollback photo file"})]
    /\ svc' = [svc EXCEPT ![u].pc = "returned", ![u].outcome = "setup_failed"]
    /\ fwd' = [fwd EXCEPT ![u].pc = "returned"]
    /\ UNCHANGED <<ids, now, streaming, adp, wrk, rdr, ana, foreignKeys, del, prs>>

\* AnalyzeStream returns an error: roll back the new photo record and the new
\* file only.  Each of the two deletes can fail, which is logged.
AnalyzeStream_Err(u, dbOK, stgOK) ==
    /\ svc[u].pc = "analyze"
    /\ photos' = IF dbOK THEN photos \ {svc[u].photo} ELSE photos
    /\ blobs' = IF stgOK THEN blobs \ {svc[u].key} ELSE blobs
    /\ logs' = [logs EXCEPT ![u] = @ \cup (IF dbOK THEN {} ELSE {"rollback photo record"})
                                       \cup (IF stgOK THEN {} ELSE {"rollback photo file"})]
    /\ ReturnErr(u, "setup_failed")
    /\ UNCHANGED <<items, ids, now, streaming, adp, wrk, rdr, ana, foreignKeys, del, prs>>

\* Mutant: DeleteByAreaID deletes the items that have no photo only.
DeleteByAreaID_OK_KeepsLinked(u) ==
    /\ svc[u].pc = "delete"
    /\ items' = {i \in items : i.photo # 0}
    /\ svc' = [svc EXCEPT ![u].pc = "returned", ![u].outcome = "ok",
                          ![u].deletes = @ + 1]
    /\ wrk' = [wrk EXCEPT ![u].pc = "recv"]
    /\ fwd' = [fwd EXCEPT ![u].pc = "recv"]
    /\ UNCHANGED <<photos, blobs, ids, now, streaming, adp, logs, rdr, ana, foreignKeys, del, prs>>

\* itemStore.DeleteByAreaID succeeds: every item of the area is gone, the
\* worker goroutine is started and the call returns (photo, out, nil).
DeleteByAreaID_OK(u) ==
    /\ svc[u].pc = "delete"
    /\ items' = {}
    /\ svc' = [svc EXCEPT ![u].pc = "returned", ![u].outcome = "ok",
                          ![u].deletes = @ + 1]
    /\ wrk' = [wrk EXCEPT ![u].pc = "recv"]
    /\ fwd' = [fwd EXCEPT ![u].pc = "recv"]
    /\ UNCHANGED <<photos, blobs, ids, now, streaming, adp, logs, rdr, ana, foreignKeys, del, prs>>

\* itemStore.DeleteByAreaID fails (the statement deletes nothing): the call
\* returns (photo, nil, err).  No worker is started; rawCh is never received from.
DeleteByAreaID_Err(u) ==
    /\ svc[u].pc = "delete"
    /\ ReturnErr(u, "delete_failed")
    /\ UNCHANGED <<photos, items, blobs, ids, now, streaming, adp, wrk, logs, rdr, ana, foreignKeys, del, prs>>

UploadPhotoStream(u) ==
    \/ GetByID_Found(u)
    \/ GetByID_NotFound(u)
    \/ StreamAnalyzer_OK(u)
    \/ StreamAnalyzer_Unsupported(u)
    \/ Save_OK(u)
    \/ PhotoCreate_OK(u)
    \/ AnalyzeStream_OK(u)
    \/ DeleteByAreaID_OK(u)

UploadPhotoStreamFault(u) ==
    \/ \E removed \in BOOLEAN : Save_Err(u, removed)
    \/ \E stgOK \in BOOLEAN : PhotoCreate_Err(u, stgOK)
    \/ \E dbOK \in BOOLEAN, stgOK \in BOOLEAN : AnalyzeStream_Err(u, dbOK, stgOK)
    \/ DeleteByAreaID_Err(u)

\* ------------------------------------------------- the adapter goroutine
\* The goroutine AnalyzeStream starts.  It reads the backend's stream and sends
\* one item event per item line on its channel (capacity 16), blocking while
\* the channel is full.  Its ctx is the detached one, which is never cancelled.
AdapterEmit(u) ==
    /\ adp[u].pc = "run"
    /\ adp[u].pos < Len(svc[u].script)
    /\ Len(adp[u].ch) < ChanCap
    /\ adp' = [adp EXCEPT ![u].ch = Append(@, ItemEvent(svc[u].script[adp[u].pos + 1])),
                          ![u].pos = @ + 1]
    /\ UNCHANGED <<photos, items, blobs, ids, now, streaming, svc, wrk, fwd, logs, rdr, ana, foreignKeys, del, prs>>

\* The backend reports completion ("done"), or the body ends without the
\* completion marker and without a read error ("eof": scanner.Err() is nil):
\* the channel is closed with no further event.
AdapterClose(u) ==
    /\ adp[u].pc = "run"
    /\ adp[u].pos = Len(svc[u].script)
    /\ svc[u].endMode \in {"done", "eof"}
    /\ adp' = [adp EXCEPT ![u].pc = "closed", ![u].closed = TRUE]
    /\ UNCHANGED <<photos, items, blobs, ids, now, streaming, svc, wrk, fwd, logs, rdr, ana, foreignKeys, del, prs>>

\* A malformed chunk or a read error: one error event, then the channel is closed.
AdapterFail(u) ==
    /\ adp[u].pc = "run"
    /\ adp[u].pos = Len(svc[u].script)
    /\ svc[u].endMode = "readerr"
    /\ Len(adp[u].ch) < ChanCap
    /\ adp' = [adp EXCEPT ![u].ch = Append(@, ErrEvent),
                          ![u].pc = "closed", ![u].closed = TRUE]
    /\ UNCHANGED <<photos, items, blobs, ids, now, streaming, svc, wrk, fwd, logs, rdr, ana, foreignKeys, del, prs>>

\* -------------------------------------------------- the worker goroutine
\* for ev := range rawCh
WorkerRecv(u) ==
    /\ wrk[u].pc = "recv"
    /\ adp[u].ch # <<>>
    /\ wrk' = [wrk EXCEPT ![u].hand = Head(adp[u].ch),
                          ![u].pc = IF Head(adp[u].ch).err THEN "send_err" ELSE "persist"]
    /\ adp' = [adp EXCEPT ![u].ch = Tail(@)]
    /\ UNCHANGED <<photos, items, blobs, ids, now, streaming, svc, fwd, logs, rdr, ana, foreignKeys, del, prs>>

\* Mutant: the worker returns without closing out.
WorkerRangeEnd_NoClose(u) ==
    /\ wrk[u].pc = "recv"
    /\ adp[u].ch = <<>>
    /\ adp[u].closed
    /\ wrk' = [wrk EXCEPT ![u].pc = "done"]
    /\ UNCHANGED <<photos, items, blobs, ids, now, streaming, svc, adp, fwd, logs, rdr, ana, foreignKeys, del, prs>>

\* rawCh is closed and drained: the loop ends and the deferred close(out) runs.
WorkerRangeEnd(u) ==
    /\ wrk[u].pc = "recv"
    /\ adp[u].ch = <<>>
    /\ adp[u].closed
    /\ wrk' = [wrk EXCEPT ![u].pc = "done", ![u].closed = TRUE]
    /\ UNCHANGED <<photos, items, blobs, ids, now, streaming, svc, adp, fwd, logs, rdr, ana, foreignKeys, del, prs>>

\* Mutant: the record is stored without its photo (photo_id NULL).
ItemCreate_OK_Unlinked(u) ==
    /\ wrk[u].pc = "persist"
    /\ LET item == [id |-> ids.item, photo |-> 0, name |-> wrk[u].hand.item]
       IN  /\ items' = items \cup {item}
           /\ wrk' = [wrk EXCEPT ![u].pc = "send", ![u].hand = ItemEvent(item.name)]
    /\ ids' = [ids EXCEPT !.item = @ + 1]
    /\ UNCHANGED <<photos, blobs, now, streaming, svc, adp, fwd, logs, rdr, ana, foreignKeys, del, prs>>

\* itemStore.Create succeeds: the event to forward carries the persisted record.
ItemCreate_OK(u) ==
    /\ wrk[u].pc = "persist"
    /\ LET item == [id |-> ids.item, photo |-> svc[u].photo.id, name |-> wrk[u].hand.item]
       IN  /\ items' = items \cup {item}
           /\ wrk' = [wrk EXCEPT ![u].pc = "send", ![u].hand = ItemEvent(item.name)]
    /\ ids' = [ids EXCEPT !.item = @ + 1]
    /\ UNCHANGED <<photos, blobs, now, streaming, svc, adp, fwd, logs, rdr, ana, foreignKeys, del, prs>>

\* Mutant: a failed itemStore.Create ends the worker.
ItemCreate_Err_Returns(u) ==
    /\ wrk[u].pc = "persist"
    /\ wrk' = [wrk EXCEPT ![u].pc = "done", ![u].hand = NoEvent, ![u].closed = TRUE,
                          ![u].skipped = Append(@, wrk[u].hand.item)]
    /\ logs' = [logs EXCEPT ![u] = @ \cup {"create item"}]
    /\ UNCHANGED <<photos, items, blobs, ids, now, streaming, svc, adp, fwd, rdr, ana, foreignKeys, del, prs>>

\* Mutant: a failed itemStore.Create is logged and the detection forwarded all
\* the same.
ItemCreate_Err_Forwards(u) ==
    /\ wrk[u].pc = "persist"
    /\ wrk' = [wrk EXCEPT ![u].pc = "send",
                          ![u].skipped = Append(@, wrk[u].hand.item)]
    /\ logs' = [logs EXCEPT ![u] = @ \cup {"create item"}]
    /\ UNCHANGED <<photos, items, blobs, ids, now, streaming, svc, adp, fwd, rdr, ana, foreignKeys, del, prs>>

\* itemStore.Create fails: logged, the item is skipped (continue).
ItemCreate_Err(u) ==
    /\ wrk[u].pc = "persist"
    /\ wrk' = [wrk EXCEPT ![u].pc = "recv", ![u].hand = NoEvent,
                          ![u].skipped = Append(@, wrk[u].hand.item)]
    /\ logs' = [logs EXCEPT ![u] = @ \cup {"create item"}]
    /\ UNCHANGED <<photos, items, blobs, ids, now, streaming, svc, adp, fwd, rdr, ana, foreignKeys, del, prs>>

\* Mutant: the event jumps the queue.
WorkerSend_Prepend(u) ==
    /\ wrk[u].pc = "send"
    /\ Len(wrk[u].out) < ChanCap
    /\ wrk' = [wrk EXCEPT ![u].out = <<wrk[u].hand>> \o @,
                          ![u].hand = NoEvent, ![u].pc = "recv"]
    /\ UNCHANGED <<photos, items, blobs, ids, now, streaming, svc, adp, fwd, logs, rdr, ana, foreignKeys, del, prs>>

\* out <- StreamEvent{Item}: blocks while out (capacity 16) is full.
WorkerSend(u) ==
    /\ wrk[u].pc = "send"
    /\ Len(wrk[u].out) < ChanCap
    /\ wrk' = [wrk EXCEPT ![u].out = Append(@, wrk[u].hand),
                          ![u].hand = NoEvent, ![u].pc = "recv"]
    /\ UNCHANGED <<photos, items, blobs, ids, now, streaming, svc, adp, fwd, logs, rdr, ana, foreignKeys, del, prs>>

\* Mutant: the record is linked to the area's latest photo, not to the photo
\* of the call.
ItemInsert_LatestPhoto(u) ==
    /\ wrk[u].pc = "persist"
    /\ \E p \in GetLatestByAreaID(photos) :
          items' = items \cup {[id |-> ids.item, photo |-> p.id, name |-> wrk[u].hand.item]}
    /\ ids' = [ids EXCEPT !.item = @ + 1]
    /\ wrk' = [wrk EXCEPT ![u].pc = "getbyid", ![u].row = ids.item]
    /\ UNCHANGED <<photos, blobs, now, streaming, svc, adp, fwd, logs, rdr, ana, foreignKeys, del, prs>>

\* itemStore.Create in its two statements, for the runs in which another
\* request can delete rows in between.  INSERT INTO items: with foreign keys
\* enforced, photo_id must name an existing photo.
ItemInsert(u) ==
    /\ wrk[u].pc = "persist"
    /\ ~(foreignKeys /\ svc[u].photo \notin photos)
    /\ items' = items \cup {[id |-> ids.item, photo |-> svc[u].photo.id,
                              name |-> wrk[u].hand.item]}
    /\ ids' = [ids EXCEPT !.item = @ + 1]
    /\ wrk' = [wrk EXCEPT ![u].pc = "getbyid", ![u].row = ids.item]
    /\ UNCHANGED <<photos, blobs, now, streaming, svc, adp, fwd, logs, rdr, ana, foreignKeys, del, prs>>

\* The INSERT fails on the foreign key: the photo record is gone.  Create
\* returns the error, which the worker logs; the item is skipped.
ItemInsert_ForeignKey(u) ==
    /\ wrk[u].pc = "persist"
    /\ foreignKeys /\ svc[u].photo \notin photos
    /\ wrk' = [wrk EXCEPT ![u].pc = "recv", ![u].hand = NoEvent,
                          ![u].skipped = Append(@, wrk[u].hand.item)]
    /\ logs' = [logs EXCEPT ![u] = @ \cup {"create item"}]
    /\ UNCHANGED <<photos, items, blobs, ids, now, streaming, svc, adp, fwd, rdr, ana, foreignKeys, del, prs>>

\* return s.GetByID(ctx, id): the row is read back.  When it has been deleted
\* since, GetByID returns (nil, nil), and the worker's item.Name dereferences
\* the nil item: the goroutine panics, which ends the process.
ItemGetByID(u) ==
    /\ wrk[u].pc = "getbyid"
    /\ wrk' = IF \E i \in items : i.id = wrk[u].row
              THEN [wrk EXCEPT ![u].pc = "send", ![u].row = 0,
                      ![u].hand = ItemEvent((CHOOSE i \in items : i.id = wrk[u].row).name)]
              ELSE [wrk EXCEPT ![u].pc = "panic"]
    /\ UNCHANGED <<photos, items, blobs, ids, now, streaming, svc, adp, fwd, logs, rdr, ana, foreignKeys, del, prs>>

\* A goroutine has panicked: the process is gone.
Crashed == \E u \in Uploads : wrk[u].pc = "panic"

\* Mutant: after forwarding the error event the worker goes on with its loop.
WorkerSendErr_Continues(u) ==
    /\ wrk[u].pc = "send_err"
    /\ Len(wrk[u].out) < ChanCap
    /\ wrk' = [wrk EXCEPT ![u].out = Append(@, wrk[u].hand),
                          ![u].hand = NoEvent, ![u].pc = "recv"]
    /\ UNCHANGED <<photos, items, blobs, ids, now, streaming, svc, adp, fwd, logs, rdr, ana, foreignKeys, del, prs>>

\* out <- ev; return: the error event is forwarded unchanged, then out is closed.
WorkerSendErr(u) ==
    /\ wrk[u].pc = "send_err"
    /\ Len(wrk[u].out) < ChanCap
    /\ wrk' = [wrk EXCEPT ![u].out = Append(@, wrk[u].hand),
                          ![u].hand = NoEvent, ![u].pc = "done", ![u].closed = TRUE]
    /\ UNCHANGED <<photos, items, blobs, ids, now, streaming, svc, adp, fwd, logs, rdr, ana, foreignKeys, del, prs>>

\* ------------------------------------- handleStreamPhoto: forwarding loop
\* for ev := range itemCh
HandlerRecv(u) ==
    /\ fwd[u].pc = "recv"
    /\ wrk[u].out # <<>>
    /\ fwd' = [fwd EXCEPT ![u].hand = Head(wrk[u].out), ![u].pc = "check",
                          ![u].delivered = Append(@, Head(wrk[u].out))]
    /\ wrk' = [wrk EXCEPT ![u].out = Tail(@)]
    /\ UNCHANGED <<photos, items, blobs, ids, now, streaming, svc, adp, logs, rdr, ana, foreignKeys, del, prs>>

\* itemCh is closed and drained: the loop ends; the done marker comes next.
HandlerRangeEnd(u) ==
    /\ fwd[u].pc = "recv"
    /\ wrk[u].out = <<>>
    /\ wrk[u].closed
    /\ fwd' = [fwd EXCEPT ![u].pc = "write_done"]
    /\ UNCHANGED <<photos, items, blobs, ids, now, streaming, svc, adp, wrk, logs, rdr, ana, foreignKeys, del, prs>>

\* if r.Context().Err() != nil { return }
HandlerCtxDone(u) ==
    /\ fwd[u].pc = "check"
    /\ fwd[u].cancelled
    /\ fwd' = [fwd EXCEPT ![u].pc = "returned", ![u].hand = NoEvent]
    /\ UNCHANGED <<photos, items, blobs, ids, now, streaming, svc, adp, wrk, logs, rdr, ana, foreignKeys, del, prs>>

\* if ev.Err != nil { log; return }
HandlerStreamErr(u) ==
    /\ fwd[u].pc = "check"
    /\ ~fwd[u].cancelled
    /\ fwd[u].hand.err
    /\ fwd' = [fwd EXCEPT ![u].pc = "returned", ![u].hand = NoEvent]
    /\ logs' = [logs EXCEPT ![u] = @ \cup {"stream vision error"}]
    /\ UNCHANGED <<photos, items, blobs, ids, now, streaming, svc, adp, wrk, rdr, ana, foreignKeys, del, prs>>

\* Neither: go on to write the item message.
HandlerItem(u) ==
    /\ fwd[u].pc = "check"
    /\ ~fwd[u].cancelled
    /\ ~fwd[u].hand.err
    /\ fwd' = [fwd EXCEPT ![u].pc = "write"]
    /\ UNCHANGED <<photos, items, blobs, ids, now, streaming, svc, adp, wrk, logs, rdr, ana, foreignKeys, del, prs>>

\* "data: " + JSON + "\n", then Flush.  late records what was written while
\* the request's context was already cancelled.
HandlerWrite_OK(u) ==
    /\ fwd[u].pc = "write"
    /\ fwd' = [fwd EXCEPT ![u].resp = Append(@, fwd[u].hand.item),
                          ![u].late = IF fwd[u].cancelled THEN @ \cup {"item"} ELSE @,
                          ![u].hand = NoEvent, ![u].pc = "recv"]
    /\ UNCHANGED <<photos, items, blobs, ids, now, streaming, svc, adp, wrk, logs, rdr, ana, foreignKeys, del, prs>>

\* A write to the response fails: return.
HandlerWrite_Err(u) ==
    /\ fwd[u].pc = "write"
    /\ fwd' = [fwd EXCEPT ![u].hand = NoEvent, ![u].pc = "returned"]
    /\ UNCHANGED <<photos, items, blobs, ids, now, streaming, svc, adp, wrk, logs, rdr, ana, foreignKeys, del, prs>>

\* w.Write("event: done\ndata: {}\n\n"), then Flush; the handler returns.
HandlerWriteDone_OK(u) ==
    /\ fwd[u].pc = "write_done"
    /\ fwd' = [fwd EXCEPT ![u].done = TRUE,
                          ![u].late = IF fwd[u].cancelled THEN @ \cup {"done"} ELSE @,
                          ![u].pc = "returned"]
    /\ UNCHANGED <<photos, items, blobs, ids, now, streaming, svc, adp, wrk, logs, rdr, ana, foreignKeys, del, prs>>

HandlerWriteDone_Err(u) ==
    /\ fwd[u].pc = "write_done"
    /\ fwd' = [fwd EXCEPT ![u].pc = "returned"]
    /\ logs' = [logs EXCEPT ![u] = @ \cup {"write done event failed"}]
    /\ UNCHANGED <<photos, items, blobs, ids, now, streaming, svc, adp, wrk, rdr, ana, foreignKeys, del, prs>>

\* The client goes away: the request's context is cancelled.  Only the
\* handler's loop reads it; UploadPhotoStream got context.WithoutCancel.
ContextCancel(u) ==
    /\ fwd[u].pc \in {"recv", "check", "write", "write_done"}
    /\ ~fwd[u].cancelled
    /\ fwd' = [fwd EXCEPT ![u].cancelled = TRUE]
    /\ UNCHANGED <<photos, items, blobs, ids, now, streaming, svc, adp, wrk, logs, rdr, ana, foreignKeys, del, prs>>

\* ------------------------------------------------------------ environment
\* A second of wall-clock time passes.
Tick ==
    /\ now < MaxClock
    /\ now' = now + 1
    /\ UNCHANGED <<photos, items, blobs, ids, streaming, svc, adp, wrk, fwd, logs, rdr, ana, foreignKeys, del, prs>>

\* ------------------------------------- AreaService.GetAreaWithItems
\* Two queries, not one transaction: first the items, then the latest photo.
\* from / within: the uploads whose UploadPhotoStream call was running when the
\* read began / all through the read.  window / inWindow: the same for the
\* stretch of the call between photoStore.Create and itemStore.DeleteByAreaID.
InWindow(u) == svc[u].pc \in {"analyze", "delete"}

ListByAreaID ==
    /\ rdr.pc = "idle"
    /\ rdr' = [pc |-> "photo", items |-> items, photo |-> NoPhoto,
               from |-> {u \in Uploads : InCall(u)}, within |-> {},
               window |-> {u \in Uploads : InWindow(u)}, inWindow |-> {}]
    /\ UNCHANGED <<photos, items, blobs, ids, now, streaming, svc, adp, wrk, fwd, logs, ana, foreignKeys, del, prs>>

GetAreaWithItems ==
    /\ rdr.pc = "photo"
    /\ \E p \in GetLatestByAreaID(photos) :
          rdr' = [rdr EXCEPT !.pc = "idle", !.photo = p,
                             !.within = {u \in rdr.from : InCall(u)},
                             !.inWindow = {u \in rdr.window : InWindow(u)}]
    /\ UNCHANGED <<photos, items, blobs, ids, now, streaming, svc, adp, wrk, fwd, logs, ana, foreignKeys, del, prs>>

\* ------------------------------------------------ AreaService.DeletePhoto
\* DELETE /areas/{id}/photo.  Four statements, not one transaction: the latest
\* photo is read, every photo record of the area deleted, every item of the
\* area deleted, and the file of the photo read at first removed.
handleDeletePhoto ==
    /\ del.pc \in {"idle", "returned"}
    /\ del.calls < MaxDeletes
    /\ del' = [DelIdle EXCEPT !.pc = "select", !.calls = del.calls + 1]
    /\ UNCHANGED <<photos, items, blobs, ids, now, streaming, svc, adp, wrk, fwd, logs, rdr, ana, foreignKeys, prs>>

\* PhotoStore.DeleteByArea: GetLatestByAreaID.  No photo: DeletePhoto returns
\* nil without deleting anything.
DeleteByArea_Select ==
    /\ del.pc = "select"
    /\ \E p \in GetLatestByAreaID(photos) :
          del' = IF p = NoPhoto
                 THEN [del EXCEPT !.pc = "returned", !.outcome = "ok"]
                 ELSE [del EXCEPT !.pc = "delete_photos", !.photo = p]
    /\ UNCHANGED <<photos, items, blobs, ids, now, streaming, svc, adp, wrk, fwd, logs, rdr, ana, foreignKeys, prs>>

\* DELETE FROM photos WHERE area_id = ?.  With foreign keys enforced the items
\* that referred to a deleted photo get photo_id NULL (ON DELETE SET NULL).
DeleteByArea_Delete ==
    /\ del.pc = "delete_photos"
    /\ photos' = {}
    /\ items' = IF foreignKeys THEN {[i EXCEPT !.photo = 0] : i \in items} ELSE items
    /\ del' = [del EXCEPT !.pc = "delete_items", !.gone = photos]
    /\ UNCHANGED <<blobs, ids, now, streaming, svc, adp, wrk, fwd, logs, rdr, ana, foreignKeys, prs>>

\* A statement of DeleteByArea fails: DeletePhoto returns the error.
DeleteByArea_Err ==
    /\ del.pc \in {"select", "delete_photos"}
    /\ del' = [del EXCEPT !.pc = "returned", !.outcome = "failed"]
    /\ UNCHANGED <<photos, items, blobs, ids, now, streaming, svc, adp, wrk, fwd, logs, rdr, ana, foreignKeys, prs>>

\* itemStore.DeleteByAreaID
DeletePhoto_DeleteItems ==
    /\ del.pc = "delete_items"
    /\ items' = {}
    /\ del' = [del EXCEPT !.pc = "delete_file"]
    /\ UNCHANGED <<photos, blobs, ids, now, streaming, svc, adp, wrk, fwd, logs, rdr, ana, foreignKeys, prs>>

\* itemStore.DeleteByAreaID fails: DeletePhoto returns the error; the photo
\* records are gone already.
DeletePhoto_DeleteItems_Err ==
    /\ del.pc = "delete_items"
    /\ del' = [del EXCEPT !.pc = "returned", !.outcome = "failed"]
    /\ UNCHANGED <<photos, items, blobs, ids, now, streaming, svc, adp, wrk, fwd, logs, rdr, ana, foreignKeys, prs>>

\* photoStg.Delete(photo.StorageKey): a failure is logged; DeletePhoto returns nil.
DeletePhoto_DeleteFile(stgOK) ==
    /\ del.pc = "delete_file"
    /\ blobs' = IF stgOK THEN blobs \ {del.photo.key} ELSE blobs
    /\ del' = [del EXCEPT !.pc = "returned", !.outcome = "ok", !.logged = ~stgOK]
    /\ UNCHANGED <<photos, items, ids, now, streaming, svc, adp, wrk, fwd, logs, rdr, ana, foreignKeys, prs>>

DeletePhoto ==
    \/ DeleteByArea_Select
    \/ DeleteByArea_Delete
    \/ DeletePhoto_DeleteItems
    \/ \E stgOK \in BOOLEAN : DeletePhoto_DeleteFile(stgOK)

DeletePhotoFault ==
    \/ DeleteByArea_Err
    \/ DeletePhoto_DeleteItems_Err

\* --------------------------------- OllamaAnalyzer / ClaudeAnalyzer in detail
\* AnalyzeStream of either adapter with its caller: a ctx that can be cancelled
\* and a consumer that receives from the channel or stops receiving.  The
\* pipeline above keeps of this only what the worker can see: item events in
\* order, then the closing of the channel, with or without an error event.
pipeVars == <<photos, items, blobs, ids, now, streaming, svc, adp, wrk, fwd, logs, rdr,
              foreignKeys, del, prs>>

CurLine == ana.body[ana.pos]

\* defer resp.Body.Close(); defer close(ch)
Deferred(a) == [a EXCEPT !.pc = "closed", !.closed = TRUE, !.bodyOpen = FALSE]

\* ch <- ev
Send(a, ev) ==
    [a EXCEPT !.ch = Append(@, ev), !.sent = Append(@, ev),
              !.late = IF a.cancelled THEN @ \cup {IF ev.err THEN "err" ELSE "item"} ELSE @]

\* The transport failed here, if it had not failed before.
Failed(a) == [a EXCEPT !.failAt = IF @ = -1 THEN Len(a.sent) ELSE @,
                       !.failSeen = IF a.failAt = -1 THEN Len(a.seen) ELSE @]

\* client.Do fails (no response), as it does when ctx is already cancelled.
ClientDo_Err ==
    /\ ana.pc = "call"
    /\ ana' = [ana EXCEPT !.pc = "error"]
    /\ UNCHANGED pipeVars

\* Mutant: the status is not looked at.
ClientDo_Status_Ignored ==
    /\ ana.pc = "call"
    /\ ~ana.cancelled
    /\ ana.status # 200
    /\ ana' = [ana EXCEPT !.pc = "scan", !.bodyOpen = TRUE, !.started = TRUE]
    /\ UNCHANGED pipeVars

\* resp.StatusCode != http.StatusOK: the body is closed, an error returned.
ClientDo_Status ==
    /\ ana.pc = "call"
    /\ ~ana.cancelled
    /\ ana.status # 200
    /\ ana' = [ana EXCEPT !.pc = "error", !.bodyOpen = FALSE]
    /\ UNCHANGED pipeVars

\* Status 200: ch is made, the goroutine started, ch returned.
ClientDo_OK ==
    /\ ana.pc = "call"
    /\ ~ana.cancelled
    /\ ana.status = 200
    /\ ana' = [ana EXCEPT !.pc = "scan", !.bodyOpen = TRUE, !.started = TRUE]
    /\ UNCHANGED pipeVars

\* scanner.Scan() returns true: the next line (it may have been buffered
\* before ctx was cancelled).
ScannerScan_Line ==
    /\ ana.pc = "scan"
    /\ ana.pos < Len(ana.body)
    /\ ana' = [ana EXCEPT !.pos = @ + 1, !.cpos = 0, !.pc = "ctxcheck"]
    /\ UNCHANGED pipeVars

\* scanner.Scan() returns false: the body has ended, cleanly (scanner.Err() is
\* nil) or with a read error.  Neither adapter reads on after the completion
\* marker, so the body has ended before it.
ScannerScan_End ==
    /\ ana.pc = "scan"
    /\ ana.pos = Len(ana.body)
    /\ ana' = [Failed(ana) EXCEPT !.pc = "after",
                  !.scanErr = IF ana.endMode = "readerr" THEN "read" ELSE "none"]
    /\ UNCHANGED pipeVars

\* scanner.Scan() returns false because ctx was cancelled: the read is aborted.
ScannerScan_CtxErr ==
    /\ ana.pc = "scan"
    /\ ana.cancelled
    /\ ana' = [ana EXCEPT !.pc = "after", !.scanErr = "ctx"]
    /\ UNCHANGED pipeVars

\* if ctx.Err() != nil { return }
CtxErr_Return ==
    /\ ana.pc = "ctxcheck"
    /\ ana.cancelled
    /\ ana' = Deferred(ana)
    /\ UNCHANGED pipeVars

\* Ollama: json.Unmarshal of the line.  A line that is not a chunk is an error.
Ollama_Unmarshal ==
    /\ ana.pc = "ctxcheck"
    /\ ana.kind = "ollama"
    /\ ~ana.cancelled
    /\ ana' = IF CurLine.kind = "chunk"
              THEN [ana EXCEPT !.pc = "chars"]
              ELSE [Failed(ana) EXCEPT !.pc = "send_err"]
    /\ UNCHANGED pipeVars

\* Claude: a line without "data: " is passed over, "[DONE]" breaks the loop, a
\* data line that does not unmarshal is passed over (continue), and so is an
\* event that is not a text delta.
Claude_DataLine ==
    /\ ana.pc = "ctxcheck"
    /\ ana.kind = "claude"
    /\ ~ana.cancelled
    /\ ana' = CASE CurLine.kind = "chunk"  -> [ana EXCEPT !.pc = "chars"]
                [] CurLine.kind = "[DONE]" -> [ana EXCEPT !.pc = "after"]
                [] CurLine.kind = "bad"    -> [Failed(ana) EXCEPT !.pc = "scan"]
                [] OTHER                   -> [ana EXCEPT !.pc = "scan"]
    /\ UNCHANGED pipeVars

\* for _, c := range text: the next character of the chunk's text.
CurChar == CurLine.text[ana.cpos + 1]

AtChar == ana.pc = "chars" /\ ana.cpos < Len(CurLine.text)

\* line := strings.TrimSpace(lineBuf.String()); item := vision.ParseLine(line)
LineItem == CHOOSE item \in {ParseLine(line) : line \in {TrimSpace(ana.lineBuf)}} : TRUE

\* A character that is not a newline goes into lineBuf; a newline ends the
\* line, and a line that is no item line is dropped.
Accumulate ==
    /\ AtChar
    /\ CurChar = "\n" => LineItem = NoItem
    /\ ana' = [ana EXCEPT !.cpos = @ + 1, !.seen = Append(@, CurChar),
                  !.lineBuf = IF CurChar = "\n" THEN <<>> ELSE Append(@, CurChar)]
    /\ UNCHANGED pipeVars

\* Mutant: an item that finds the channel full is dropped.
SendItem_DropWhenFull ==
    /\ AtChar
    /\ CurChar = "\n"
    /\ LineItem # NoItem
    /\ ana' = [(IF Len(ana.ch) < ChanCap THEN Send(ana, ItemEvent(LineItem)) ELSE ana)
                  EXCEPT !.cpos = @ + 1, !.seen = Append(@, CurChar), !.lineBuf = <<>>]
    /\ UNCHANGED pipeVars

\* A newline ends an item line: ch <- StreamEvent{Item}, which blocks while
\* the channel is full.
SendItem ==
    /\ AtChar
    /\ CurChar = "\n"
    /\ LineItem # NoItem
    /\ Len(ana.ch) < ChanCap
    /\ ana' = [Send(ana, ItemEvent(LineItem)) EXCEPT
                  !.cpos = @ + 1, !.seen = Append(@, CurChar), !.lineBuf = <<>>]
    /\ UNCHANGED pipeVars

\* Mutant: the line buffer is local to a chunk.
ChunkEnd_ResetsLine ==
    /\ ana.pc = "chars"
    /\ ana.cpos = Len(CurLine.text)
    /\ ana' = [ana EXCEPT !.pc = IF ana.kind = "ollama" /\ CurLine.done THEN "flush" ELSE "scan",
                          !.lineBuf = IF ana.kind = "ollama" /\ CurLine.done THEN @ ELSE <<>>]
    /\ UNCHANGED pipeVars

\* The chunk's text is used up: Ollama's done chunk leads to the flush, any
\* other chunk to the next Scan.
ChunkEnd ==
    /\ ana.pc = "chars"
    /\ ana.cpos = Len(CurLine.text)
    /\ ana' = [ana EXCEPT !.pc = IF ana.kind = "ollama" /\ CurLine.done THEN "flush" ELSE "scan"]
    /\ UNCHANGED pipeVars

\* Ollama, chunk.Done: the trailing line is flushed, then return.
Ollama_Flush ==
    /\ ana.pc = "flush"
    /\ LineItem # NoItem => Len(ana.ch) < ChanCap
    /\ ana' = Deferred(IF LineItem # NoItem THEN Send(ana, ItemEvent(LineItem)) ELSE ana)
    /\ UNCHANGED pipeVars

\* Claude, after the loop (however it ended): "Flush any trailing line".
Claude_FlushTail ==
    /\ ana.pc = "after"
    /\ ana.kind = "claude"
    /\ \E tail \in {TrimSpace(ana.lineBuf)} :
          \E item \in {IF tail # <<>> THEN ParseLine(tail) ELSE NoItem} :
              /\ item # NoItem => Len(ana.ch) < ChanCap
              /\ ana' = [(IF item # NoItem THEN Send(ana, ItemEvent(item)) ELSE ana)
                            EXCEPT !.pc = "errcheck"]
    /\ UNCHANGED pipeVars

\* if err := scanner.Err(); err != nil && ctx.Err() == nil { ch <- Err }
ScannerErr ==
    /\ \/ ana.pc = "errcheck"
       \/ ana.pc = "after" /\ ana.kind = "ollama"
    /\ ana' = IF ana.scanErr # "none" /\ ~ana.cancelled
              THEN [ana EXCEPT !.pc = "send_err"]
              ELSE Deferred(ana)
    /\ UNCHANGED pipeVars

\* ch <- StreamEvent{Err}, which blocks while the channel is full; then return.
SendErr ==
    /\ ana.pc = "send_err"
    /\ Len(ana.ch) < ChanCap
    /\ ana' = Deferred(Send(ana, StreamErr))
    /\ UNCHANGED pipeVars

\* The caller cancels ctx.
CtxCancel ==
    /\ ana.pc \notin {"idle", "closed", "error"}
    /\ ~ana.cancelled
    /\ ana' = [ana EXCEPT !.cancelled = TRUE]
    /\ UNCHANGED pipeVars

\* The consumer receives an event: for ev := range ch.
Receive ==
    /\ ana.consumer = "recv"
    /\ ana.ch # <<>>
    /\ ana' = [ana EXCEPT !.got = Append(@, Head(ana.ch)), !.ch = Tail(@)]
    /\ UNCHANGED pipeVars

\* The consumer stops receiving.
ConsumerStop ==
    /\ ana.started
    /\ ana.consumer = "recv"
    /\ ana' = [ana EXCEPT !.consumer = "gone"]
    /\ UNCHANGED pipeVars

\* The goroutine is at a send (ch <- ev) / is there with the channel full.
SendPending ==
    \/ AtChar /\ CurChar = "\n" /\ LineItem # NoItem
    \/ ana.pc = "flush" /\ LineItem # NoItem
    \/ ana.pc = "after" /\ ana.kind = "claude" /\ LineItem # NoItem
    \/ ana.pc = "send_err"

SendBlocked == SendPending /\ Len(ana.ch) = ChanCap

\* The call or its goroutine can take a step: it has not returned and is not
\* blocked on a send.
Runnable ==
    /\ ana.pc \in {"call", "scan", "ctxcheck", "chars", "flush", "after", "errcheck", "send_err"}
    /\ ~SendBlocked

\* The adapter goroutine and the call that starts it.
AnalyzeStream ==
    \/ ClientDo_Err
    \/ ClientDo_Status
    \/ ClientDo_OK
    \/ ScannerScan_Line
    \/ ScannerScan_End
    \/ ScannerScan_CtxErr
    \/ CtxErr_Return
    \/ Ollama_Unmarshal
    \/ Claude_DataLine
    \/ Accumulate
    \/ SendItem
    \/ ChunkEnd
    \/ Ollama_Flush
    \/ Claude_FlushTail
    \/ ScannerErr
    \/ SendErr

\* ------------------------------------------------------------------- Next
Quiescent == \A u \in Uploads : ~InFlight(u)

Pipeline(u) ==
    \/ AdapterEmit(u)
    \/ AdapterClose(u)
    \/ AdapterFail(u)
    \/ WorkerRecv(u)
    \/ WorkerRangeEnd(u)
    \/ ItemCreate_OK(u)
    \/ WorkerSend(u)
    \/ WorkerSendErr(u)
    \/ HandlerRecv(u)
    \/ HandlerRangeEnd(u)
    \/ HandlerCtxDone(u)
    \/ HandlerStreamErr(u)
    \/ HandlerItem(u)
    \/ HandlerWrite_OK(u)
    \/ HandlerWriteDone_OK(u)
    \/ ContextCancel(u)

PipelineFault(u) ==
    \/ ItemCreate_Err(u)
    \/ HandlerWrite_Err(u)
    \/ HandlerWriteDone_Err(u)

\* Requests to the area come one after the other; reads come at any time.
Next ==
    \/ \E u \in Requests, area \in {AreaID, AreaID + 1}, n \in 0..MaxEmit, end \in EndModes :
          Quiescent /\ handleStreamPhoto(u, area, n, end)
    \/ \E u \in Requests : UploadPhotoStream(u)
    \/ \E u \in Requests : UploadPhotoStreamFault(u)
    \/ \E u \in Requests : Pipeline(u)
    \/ \E u \in Requests : PipelineFault(u)
    \/ Tick
    \/ ListByAreaID
    \/ GetAreaWithItems

Spec == Init /\ [][Next]_vars

\* One upload whose backend stream is longer than both channel buffers
\* together, with every store call and every write succeeding.
NextPipe ==
    \/ \E u \in Requests, area \in {AreaID, AreaID + 1}, end \in EndModes :
          Quiescent /\ handleStreamPhoto(u, area, LongEmit, end)
    \/ \E u \in Requests : UploadPhotoStream(u)
    \/ \E u \in Requests : Pipeline(u)

SpecPipe == Init /\ [][NextPipe]_vars

\* One AnalyzeStream call of either adapter on its own, for a response body
\* with at most n lines or the long one.
InitAnalyzeStream(n) ==
    /\ InitStore(FALSE)
    /\ now = 0
    /\ streaming = TRUE
    /\ svc  = [u \in Uploads |-> SvcIdle]
    /\ adp  = [u \in Uploads |-> AdpIdle]
    /\ wrk  = [u \in Uploads |-> WrkIdle]
    /\ fwd  = [u \in Uploads |-> FwdIdle]
    /\ logs = [u \in Uploads |-> {}]
    /\ rdr  = RdrIdle
    /\ ana \in AnaStarts(n)
    /\ foreignKeys = TRUE
    /\ del  = DelIdle
    /\ prs  = PrsIdle

InitAdapter == InitAnalyzeStream(MaxLines)

NextAdapter ==
    \/ AnalyzeStream
    \/ CtxCancel
    \/ Receive
    \/ ConsumerStop

SpecAdapter == InitAdapter /\ [][NextAdapter]_vars

\* The goroutine runs whenever it can take a step; nothing is assumed of the
\* consumer or of the caller.
SpecAdapterLive ==
    /\ InitAnalyzeStream(LiveLines)
    /\ [][NextAdapter]_vars
    /\ WF_vars(AnalyzeStream)

\* One upload at a time and DeletePhoto requests, which can come while an
\* upload's stream is still open.  Whether the connection enforces foreign
\* keys is left open: db.Open asks for it with the DSN parameter
\* _foreign_keys=on, and it is the driver that decides what that does.  The
\* handler's forwarding loop, which never touches the store, is left to wait.
\* A panic of the worker ends the process, and the behaviour with it.
AtRest(u) == ~InCall(u) /\ adp[u].pc # "run" /\ wrk[u].pc \in {"idle", "done"}

InitDelete ==
    /\ \E prior \in BOOLEAN : InitStore(prior)
    /\ now = 0
    /\ streaming = TRUE
    /\ svc  = [u \in Uploads |-> SvcIdle]
    /\ adp  = [u \in Uploads |-> AdpIdle]
    /\ wrk  = [u \in Uploads |-> WrkIdle]
    /\ fwd  = [u \in Uploads |-> FwdIdle]
    /\ logs = [u \in Uploads |-> {}]
    /\ rdr  = RdrIdle
    /\ ana  = AnaIdle
    /\ foreignKeys \in BOOLEAN
    /\ del  = DelIdle
    /\ prs  = PrsIdle

\* The steps of an upload whose store calls succeed, with itemStore.Create in
\* its two statements.
UploadSteps(u) ==
    \/ GetByID_Found(u)
    \/ StreamAnalyzer_OK(u)
    \/ Save_OK(u)
    \/ PhotoCreate_OK(u)
    \/ AnalyzeStream_OK(u)
    \/ DeleteByAreaID_OK(u)
    \/ AdapterEmit(u)
    \/ AdapterClose(u)
    \/ WorkerRecv(u)
    \/ WorkerRangeEnd(u)
    \/ ItemInsert(u)
    \/ ItemGetByID(u)
    \/ WorkerSend(u)

NextDelete ==
    \/ \E u \in Requests, n \in 0..RaceEmit, end \in EndModes :
          (\A v \in Uploads : AtRest(v)) /\ handleStreamPhoto(u, AreaID, n, end)
    \/ \E u \in Requests : ~Crashed /\ UploadSteps(u)
    \/ \E u \in Requests : ~Crashed /\ ItemInsert_ForeignKey(u)
    \/ \E u \in Requests : ~Crashed /\ AdapterFail(u)
    \/ \E u \in Requests : ~Crashed /\ WorkerSendErr(u)
    \/ \E u \in Requests, dbOK \in BOOLEAN, stgOK \in BOOLEAN :
          ~Crashed /\ AnalyzeStream_Err(u, dbOK, stgOK)
    \/ \E u \in Requests : ~Crashed /\ DeleteByAreaID_Err(u)
    \/ ~Crashed /\ Tick
    \/ ~Crashed /\ handleDeletePhoto
    \/ ~Crashed /\ DeletePhoto
    \/ ~Crashed /\ DeletePhotoFault

SpecDelete == InitDelete /\ [][NextDelete]_vars

\* Upload requests to the same area at the same time: nothing keeps a second
\* request from arriving while the first is in progress.  Every store call
\* succeeds and every stream reports completion.
InitRace ==
    /\ InitDelete
    /\ foreignKeys = TRUE

NextRace ==
    \/ \E u \in Racers, n \in 0..RaceEmit :
          ~Crashed /\ handleStreamPhoto(u, AreaID, n, "done")
    \/ \E u \in Racers : ~Crashed /\ UploadSteps(u)
    \/ ~Crashed /\ Tick

SpecRace == InitRace /\ [][NextRace]_vars

\* ------------------------------------------------ the parser on its own
\* vision.ParseLine and vision.ParseResponse are pure: a behaviour is one call
\* on one input.  A line is any text of up to MaxLineLen characters, a
\* response any text of up to MaxRawLen characters.
LineChars == {"a", "b", " ", "|"}
RawChars  == {"a", "|", " ", "\n"}

TextsOver(chars, n) == UNION {[1..k -> chars] : k \in 0..n}

InitParse ==
    /\ InitStore(FALSE)
    /\ now = 0
    /\ streaming = TRUE
    /\ svc  = [u \in Uploads |-> SvcIdle]
    /\ adp  = [u \in Uploads |-> AdpIdle]
    /\ wrk  = [u \in Uploads |-> WrkIdle]
    /\ fwd  = [u \in Uploads |-> FwdIdle]
    /\ logs = [u \in Uploads |-> {}]
    /\ rdr  = RdrIdle
    /\ ana  = AnaIdle
    /\ foreignKeys = TRUE
    /\ del  = DelIdle
    /\ \/ \E l \in TextsOver(LineChars, MaxLineLen) :
              prs = [PrsIdle EXCEPT !.pc = "line", !.line = l]
       \/ \E t \in TextsOver(RawChars, MaxRawLen) :
              prs = [PrsIdle EXCEPT !.pc = "raw", !.raw = t]

\* item := ParseLine(line)
ParseLineCall ==
    /\ prs.pc = "line"
    /\ prs' = [prs EXCEPT !.pc = "parsed", !.item = ParseLine(prs.line)]
    /\ UNCHANGED <<photos, items, blobs, ids, now, streaming, svc, adp, wrk, fwd, logs, rdr, ana, foreignKeys, del>>

\* items := ParseResponse(raw)
ParseResponseCall ==
    /\ prs.pc = "raw"
    /\ prs' = [prs EXCEPT !.pc = "lines", !.batch = ParseResponse(prs.raw)]
    /\ UNCHANGED <<photos, items, blobs, ids, now, streaming, svc, adp, wrk, fwd, logs, rdr, ana, foreignKeys, del>>

\* The same text read line by line, as the streaming adapter reads it
\* (claude.go): characters are collected up to a newline ...
PerLine_Collect ==
    /\ prs.pc = "lines"
    /\ prs.pos < Len(prs.raw)
    /\ prs.raw[prs.pos + 1] # "\n"
    /\ prs' = [prs EXCEPT !.pos = @ + 1, !.lineBuf = Append(@, prs.raw[prs.pos + 1])]
    /\ UNCHANGED <<photos, items, blobs, ids, now, streaming, svc, adp, wrk, fwd, logs, rdr, ana, foreignKeys, del>>

\* ... the line is handed to ParseLine and its item, if any, is kept ...
PerLine_Newline ==
    /\ prs.pc = "lines"
    /\ prs.pos < Len(prs.raw)
    /\ prs.raw[prs.pos + 1] = "\n"
    /\ \E item \in {ParseLine(TrimSpace(prs.lineBuf))} :
          prs' = [prs EXCEPT !.pos = @ + 1, !.lineBuf = <<>>, !.item = item,
                             !.streamed = IF item = NoItem THEN @ ELSE Append(@, item)]
    /\ UNCHANGED <<photos, items, blobs, ids, now, streaming, svc, adp, wrk, fwd, logs, rdr, ana, foreignKeys, del>>

\* ... and what follows the last newline is the last line.
PerLine_End ==
    /\ prs.pc = "lines"
    /\ prs.pos = Len(prs.raw)
    /\ \E tail \in {TrimSpace(prs.lineBuf)} :
       \E item \in {IF tail # <<>> THEN ParseLine(tail) ELSE NoItem} :
          prs' = [prs EXCEPT !.pc = "done", !.lineBuf = <<>>, !.item = item,
                             !.streamed = IF item = NoItem THEN @ ELSE Append(@, item)]
    /\ UNCHANGED <<photos, items, blobs, ids, now, streaming, svc, adp, wrk, fwd, logs, rdr, ana, foreignKeys, del>>

NextParse ==
    \/ ParseLineCall
    \/ ParseResponseCall
    \/ PerLine_Collect
    \/ PerLine_Newline
    \/ PerLine_End

SpecParse == InitParse /\ [][NextParse]_vars

\* ------------------------------------------- a text sent in chunks
\* The backend sends a text in chunks, cut anywhere, and then reports
\* completion: Ollama with done on the last chunk or on an empty chunk of its
\* own, Claude with "data: [DONE]" or with an event that is no text delta
\* (message_stop) and the end of the body.  ctx is not cancelled and the
\* consumer receives.  prs.raw keeps the text.
RECURSIVE SplitsOf(_)
SplitsOf(T) ==
    IF T = <<>> THEN {<<>>}
    ELSE UNION {{<<SubSeq(T, 1, k)>> \o rest : rest \in SplitsOf(SubSeq(T, k + 1, Len(T)))} :
                   k \in 1..Len(T)}

ChunkedBodies(kind, pieces) ==
    LET chunks == [i \in 1..Len(pieces) |-> Chunk(pieces[i], FALSE)]
    IN  IF kind = "claude" THEN {chunks \o <<DoneLine>>, chunks \o <<OtherLine>>}
        ELSE {chunks \o <<Chunk(<<>>, TRUE)>>}
             \cup (IF Len(pieces) > 0
                   THEN {[chunks EXCEPT ![Len(pieces)].done = TRUE]}
                   ELSE {})

InitChunks ==
    /\ InitStore(FALSE)
    /\ now = 0
    /\ streaming = TRUE
    /\ svc  = [u \in Uploads |-> SvcIdle]
    /\ adp  = [u \in Uploads |-> AdpIdle]
    /\ wrk  = [u \in Uploads |-> WrkIdle]
    /\ fwd  = [u \in Uploads |-> FwdIdle]
    /\ logs = [u \in Uploads |-> {}]
    /\ rdr  = RdrIdle
    /\ foreignKeys = TRUE
    /\ del  = DelIdle
    /\ \E T \in TextsOver(RawChars, MaxTextLen), k \in Kinds :
          \E pieces \in SplitsOf(T) :
             \E b \in ChunkedBodies(k, pieces) :
                /\ prs = [PrsIdle EXCEPT !.raw = T]
                /\ ana = [AnaIdle EXCEPT !.pc = "call", !.kind = k, !.body = b]

NextChunks ==
    \/ ClientDo_OK
    \/ ScannerScan_Line
    \/ ScannerScan_End
    \/ Ollama_Unmarshal
    \/ Claude_DataLine
    \/ Accumulate
    \/ SendItem
    \/ ChunkEnd
    \/ Ollama_Flush
    \/ Claude_FlushTail
    \/ ScannerErr
    \/ Receive

SpecChunks == InitChunks /\ [][NextChunks]_vars

\* ------------------------------------------- an upload run to its end
\* One upload at a time whose client stays connected: the request's context is
\* not cancelled and the writes of item messages succeed, so the handler keeps
\* receiving.  The backend's stream is short or longer than both channel
\* buffers together, and ends.  Of the store calls only DeleteByAreaID can
\* fail.  Every goroutine that can take a step does so
\* in the end (the Go scheduler runs every runnable goroutine).
LiveEmits == {0, 1, LongEmit}

InitLive ==
    /\ InitDelete
    /\ foreignKeys = TRUE

SetupSteps(u) ==
    \/ GetByID_Found(u)
    \/ StreamAnalyzer_OK(u)
    \/ Save_OK(u)
    \/ PhotoCreate_OK(u)
    \/ AnalyzeStream_OK(u)
    \/ DeleteByAreaID_OK(u)
    \/ DeleteByAreaID_Err(u)

AdapterSteps(u) ==
    \/ AdapterEmit(u)
    \/ AdapterClose(u)
    \/ AdapterFail(u)

WorkerSteps(u) ==
    \/ WorkerRecv(u)
    \/ WorkerRangeEnd(u)
    \/ ItemCreate_OK(u)
    \/ WorkerSend(u)
    \/ WorkerSendErr(u)

HandlerSteps(u) ==
    \/ HandlerRecv(u)
    \/ HandlerRangeEnd(u)
    \/ HandlerStreamErr(u)
    \/ HandlerItem(u)
    \/ HandlerWrite_OK(u)
    \/ HandlerWriteDone_OK(u)
    \/ HandlerWriteDone_Err(u)

NextLive ==
    \/ \E u \in Requests, n \in LiveEmits, end \in EndModes :
          Quiescent /\ handleStreamPhoto(u, AreaID, n, end)
    \/ \E u \in Requests : SetupSteps(u)
    \/ \E u \in Requests : AdapterSteps(u)
    \/ \E u \in Requests : WorkerSteps(u)
    \/ \E u \in Requests : HandlerSteps(u)

SpecLive ==
    /\ InitLive
    /\ [][NextLive]_vars
    /\ \A u \in Requests :
          /\ WF_vars(SetupSteps(u))
          /\ WF_vars(AdapterSteps(u))
          /\ WF_vars(WorkerSteps(u))
          /\ WF_vars(HandlerSteps(u))

\* ================================================================= claims
Returned(u, outcome) == svc[u].pc = "returned" /\ svc[u].outcome = outcome

\* No request has arrived after request u: the area is as upload u leaves it.
Latest(u) == \A v \in Uploads : v > u => svc[v].pc = "idle"

ReturnedLast(u, outcome) == Returned(u, outcome) /\ Latest(u)

\* What GetLatestByAreaID could return before the call, and the new photo.
PreLatest(u) == GetLatestByAreaID(svc[u].pre.photos)

\* The items the upload's worker has persisted, in order of insertion.
Persisted(u) == ItemsOfPhoto(svc[u].photo.id)

\* The item events the worker has forwarded, in the order the handler gets them.
Forwarded(u) == EventNames(fwd[u].delivered \o wrk[u].out)

C2_NoPartialStateObservable ==
    \A u \in Uploads : (rdr.pc = "idle" /\ u \in rdr.within /\ Returned(u, "setup_failed")) =>
        /\ rdr.items = svc[u].pre.items
        /\ rdr.photo \in PreLatest(u)

\* C2 (amended): such a read returns the pre-call items, and as the latest
\* photo either the pre-call latest photo or the new photo (from the creation
\* of its record until the rollback).
C2_ReadDuringFailingSetup ==
    \A u \in Uploads : (rdr.pc = "idle" /\ u \in rdr.within /\ Returned(u, "setup_failed")) =>
        /\ rdr.items = svc[u].pre.items
        /\ rdr.photo \in PreLatest(u) \cup {svc[u].photo}

C2_Witness ==
    \E u \in Uploads :
        /\ rdr.pc = "idle" /\ u \in rdr.within /\ Returned(u, "setup_failed")
        /\ svc[u].pre.items # {}
        /\ rdr.items = svc[u].pre.items
        /\ rdr.photo = svc[u].photo

\* C3: in every UploadPhotoStream call the area's items are deleted at most
\* once, and only by a call whose AnalyzeStream has returned a channel: a step
\* that removes an item, or that counts a DeleteByAreaID, is taken by a call
\* that is past AnalyzeStream without error and has not deleted before.
C3_DeleteStep ==
    \/ items \ items' # {}
    \/ \E u \in Uploads : svc'[u].deletes # svc[u].deletes

C3_OldItemsDeletedOnceAfterAccept ==
    [][C3_DeleteStep =>
          \E u \in Uploads :
              /\ svc[u].pc = "delete" /\ svc[u].accepted /\ svc[u].deletes = 0
              /\ svc'[u].deletes = 1
              /\ \A v \in Uploads \ {u} : svc'[v].deletes = svc[v].deletes]_vars

C3_Witness ==
    \E u \in Uploads :
        /\ Returned(u, "ok")
        /\ svc[u].deletes = 1
        /\ svc[u].pre.items # {}
        /\ \A i \in items : i \notin svc[u].pre.items

\* C4 (as claimed): once the request's context is cancelled after
\* UploadPhotoStream returned, the worker still persists every item of the
\* backend's stream: when the pipeline has come to rest, all of them are stored.
C4_CancelNeverStopsPersistence ==
    \A u \in Uploads :
        (ReturnedLast(u, "ok") /\ fwd[u].cancelled /\ ~ENABLED Pipeline(u)) =>
            Persisted(u) = svc[u].script

\* C5 (as claimed): the worker is never left blocked on a send to out: it is
\* never waiting to send on a full out channel that the handler, having
\* returned, will not receive from again.
C5_WorkerNeverBlockedOnSend ==
    \A u \in Uploads :
        ~ /\ wrk[u].pc \in {"send", "send_err"}
          /\ Len(wrk[u].out) = ChanCap
          /\ fwd[u].pc = "returned"

\* C6: the items are persisted in emission order and forwarded in that same
\* order, one at a time: what is persisted is a subsequence of the backend's
\* item lines, what is forwarded is a prefix of what is persisted, at most the
\* one item the worker is about to send is persisted and not yet forwarded, and
\* the response carries a prefix of what the handler received.
C6_OrderPreserved ==
    \A u \in Uploads : ReturnedLast(u, "ok") =>
        /\ IsSubSeq(Persisted(u), svc[u].script)
        /\ IsPrefix(Forwarded(u), Persisted(u))
        /\ Len(Persisted(u)) <= Len(Forwarded(u)) + 1
        /\ Len(Persisted(u)) = Len(Forwarded(u)) + 1 => wrk[u].pc = "send"
        /\ IsPrefix(fwd[u].resp, EventNames(fwd[u].delivered))

C6_Witness ==
    \E u \in Uploads :
        /\ ReturnedLast(u, "ok")
        /\ Len(svc[u].script) >= 2
        /\ Persisted(u) = svc[u].script
        /\ fwd[u].resp = svc[u].script
        /\ fwd[u].done

\* C7 (as claimed): the adapter emits k items and then an error event; when the
\* worker has finished, the area holds exactly the items it persisted, all
\* linked to the new photo, the new photo is the area's latest photo, and
\* neither its record nor its blob was rolled back.
C7_MidStreamFailureState ==
    \A u \in Uploads :
        (ReturnedLast(u, "ok") /\ svc[u].endMode = "readerr" /\ wrk[u].pc = "done") =>
            /\ \A i \in items : i.photo = svc[u].photo.id
            /\ IsSubSeq(Persisted(u), svc[u].script)
            /\ svc[u].photo \in photos
            /\ svc[u].key \in blobs
            /\ GetLatestByAreaID(photos) = {svc[u].photo}

\* C8 (as claimed): DeleteByAreaID fails after the adapter accepted the
\* stream; the call returns an error, the new photo is the area's latest
\* photo, and every item left is linked to the new photo.
C8_DeleteFailureLeavesNoOldItems ==
    \A u \in Uploads : ReturnedLast(u, "delete_failed") =>
        /\ svc[u].photo \in photos
        /\ GetLatestByAreaID(photos) = {svc[u].photo}
        /\ \A i \in items : i.photo = svc[u].photo.id

\* C9 (as claimed): the done marker is written only when the backend's stream
\* reached its completion marker and no error event was received.
C9_DoneOnlyOnCleanCompletion ==
    \A u \in Uploads : fwd[u].done =>
        /\ svc[u].endMode = "done"
        /\ \A i \in 1..Len(fwd[u].delivered) : ~fwd[u].delivered[i].err

\* C10 (as claimed): nothing, neither an item message nor the done marker, is
\* written to the response once the request's context is cancelled.
C10_NoWriteAfterCancel ==
    \A u \in Uploads : fwd[u].late = {}

\* The stream failed (malformed chunk, or the body ended before the completion
\* marker), ctx was not cancelled, and the goroutine has returned.
FailedStreamClosed == ana.closed /\ ana.failAt # -1 /\ ~ana.cancelled

\* C11 (as claimed): when the backend stream yields content producing items
\* e1..en and then fails, the channel carries exactly e1..en in order (the
\* items of the lines complete at the failure), then exactly one error event,
\* and is closed; nothing follows the error event.
C11_ItemsThenOneErrorThenClose ==
    FailedStreamClosed =>
        /\ ana.got \o ana.ch = ana.sent
        /\ Len(ana.sent) = ana.failAt + 1
        /\ EventNames(SubSeq(ana.sent, 1, ana.failAt))
              = CompleteLines(SubSeq(ana.seen, 1, ana.failSeen))
        /\ \A i \in 1..Len(ana.sent) : ana.sent[i].err <=> i = Len(ana.sent)

\* C12 (as claimed): a transport failure in mid-stream gives exactly one error
\* event, sent at the failure and followed by the closing of the channel: the
\* stream never closes without it and no item is sent past the failure.
C12_TransportFailureOneError ==
    FailedStreamClosed =>
        /\ \E i \in 1..Len(ana.sent) : ana.sent[i].err
        /\ \A i \in 1..Len(ana.sent) : i > ana.failAt => ana.sent[i].err
        /\ \A i, j \in 1..Len(ana.sent) : (ana.sent[i].err /\ ana.sent[j].err) => i = j

\* C13 (as claimed): once AnalyzeStream has returned a channel, the goroutine
\* eventually closes it and releases the response body, whatever the consumer
\* does (the body is finite, so the stream ends).
C13_EventuallyClosedAndReleased ==
    ana.started ~> (ana.closed /\ ~ana.bodyOpen)

\* C14 (as claimed): once ctx is cancelled no further item event is sent.
C14_NoItemAfterCancel ==
    "item" \notin ana.late

\* C15: the channel never holds more than 16 events; every event sent is either
\* received or still in the channel, in the order sent (none dropped, none
\* reordered); and the items sent are, in order, the items of the text read so
\* far (with the trailing line once it has been flushed).  A send waits while
\* the channel is full.
C15_BoundedNoDropNoReorder ==
    /\ Len(ana.ch) <= ChanCap
    /\ ana.got \o ana.ch = ana.sent
    /\ EventNames(ana.sent) \in {CompleteLines(ana.seen), ParseResponse(ana.seen)}

C15_Witness ==
    /\ SendBlocked
    /\ ~ana.cancelled
    /\ Len(EventNames(ana.ch)) = ChanCap
    /\ EventNames(ana.sent) = CompleteLines(ana.seen)

\* C16: a non-success status makes AnalyzeStream return an error: no goroutine
\* is started, no channel is returned, nothing is ever sent, and the response
\* body is closed.
C16_StatusErrorNoChannel ==
    (ana.status # 200 /\ ana.pc \notin {"idle", "call"}) =>
        /\ ana.pc = "error"
        /\ ~ana.started
        /\ ~ana.bodyOpen
        /\ ~ana.closed
        /\ ana.sent = <<>>

C16_Witness ==
    /\ ana.status # 200
    /\ ana.pc = "error"
    /\ ~ana.cancelled

\* C17 (as claimed): a call that reaches the adapter has created exactly one
\* photo record, before AnalyzeStream is invoked; a GetAreaWithItems made
\* between that creation and the deletion of the old items returns the new
\* photo as the latest photo, with the old items.
C17_NewPhotoThenOldItemsVisible ==
    \A u \in Uploads :
        /\ (InWindow(u) \/ svc[u].accepted) =>
              /\ svc[u].photo \notin svc[u].pre.photos
              /\ Latest(u) /\ InCall(u) => photos = svc[u].pre.photos \cup {svc[u].photo}
        /\ (rdr.pc = "idle" /\ u \in rdr.inWindow) =>
              /\ rdr.items = svc[u].pre.items
              /\ rdr.photo = svc[u].photo

\* The outcomes of UploadPhotoStream before anything is created.
EarlyFailures == {"not_found", "unsupported", "save_failed"}

C19_CreateFailureCompensates ==
    \A u \in Uploads : ReturnedLast(u, "create_failed") =>
        /\ photos = svc[u].pre.photos
        /\ items = svc[u].pre.items
        /\ ~svc[u].accepted /\ adp[u].pc = "idle"
        /\ svc[u].pre.blobs \subseteq blobs
        /\ blobs \subseteq svc[u].pre.blobs \cup {svc[u].key}
        /\ svc[u].key \in blobs => logs[u] # {}

\* The backend's item lines without those whose itemStore.Create failed.
NotSkipped(u) ==
    LET Kept(n) == \A i \in 1..Len(wrk[u].skipped) : wrk[u].skipped[i] # n
    IN  SelectSeq(svc[u].script, Kept)

\* C20: an item whose persisting fails is never stored and never forwarded, and
\* gives no error event; when the worker has finished, every other item of the
\* stream is persisted and forwarded, in order, and out is closed.
C20_FailedItemSkipped ==
    \A u \in Uploads : ReturnedLast(u, "ok") =>
        /\ \A i \in 1..Len(wrk[u].skipped), j \in 1..Len(Forwarded(u)) :
              wrk[u].skipped[i] # Forwarded(u)[j]
        /\ IsSubSeq(Persisted(u), NotSkipped(u))
        /\ \A i \in 1..Len(wrk[u].out) : wrk[u].out[i].err => svc[u].endMode = "readerr"
        /\ \A i \in 1..Len(fwd[u].delivered) :
              fwd[u].delivered[i].err => svc[u].endMode = "readerr"
        /\ wrk[u].pc = "done" =>
              /\ Persisted(u) = NotSkipped(u)
              /\ Forwarded(u) = Persisted(u)
              /\ wrk[u].closed

C20_Witness ==
    \E u \in Uploads :
        /\ ReturnedLast(u, "ok")
        /\ wrk[u].pc = "done"
        /\ wrk[u].skipped = <<2>>
        /\ Persisted(u) = <<1, 3>>
        /\ fwd[u].resp = <<1, 3>>
        /\ fwd[u].done

\* The events the worker has put on out, in order (received or still queued).
OutEvents(u) == fwd[u].delivered \o wrk[u].out

\* The worker has taken an error event from the adapter's channel.
ErrTaken(u) ==
    \/ wrk[u].pc = "send_err"
    \/ \E i \in 1..Len(OutEvents(u)) : OutEvents(u)[i].err

\* C21: the worker forwards an error event as it got it, and that is the end
\* of it: the event is the last one on out, out is closed and the worker has
\* returned as soon as the event is sent, and from the moment the worker holds
\* the error event no step creates an item for its photo.
C21_ErrorEventEndsWorker ==
    [][\A u \in Uploads :
          /\ wrk'[u].pc = "send_err" => wrk'[u].hand = ErrEvent
          /\ \A i \in 1..Len(OutEvents(u)') :
                OutEvents(u)'[i].err =>
                    /\ i = Len(OutEvents(u)')
                    /\ OutEvents(u)'[i] = ErrEvent
                    /\ wrk'[u].pc = "done" /\ wrk'[u].closed
          /\ ErrTaken(u) =>
                {i \in items' : i.photo = svc[u].photo.id} \subseteq items]_vars

C21_Witness ==
    \E u \in Uploads :
        /\ ReturnedLast(u, "ok")
        /\ svc[u].endMode = "readerr"
        /\ Len(svc[u].script) >= 2
        /\ wrk[u].pc = "done" /\ wrk[u].closed
        /\ Persisted(u) = svc[u].script
        /\ EventNames(OutEvents(u)) = svc[u].script
        /\ OutEvents(u)[Len(OutEvents(u))] = ErrEvent

\* C22: every item event the worker has put on out, and the one it is about to
\* put there, is the event of a record that itemStore.Create had stored before:
\* the k-th event carries the name of the k-th record linked to the photo the
\* call returned, and that photo's record exists.
C22_ForwardedItemsArePersisted ==
    \A u \in Uploads : ReturnedLast(u, "ok") =>
        LET sent == EventNames(OutEvents(u)) \o
                        (IF wrk[u].pc = "send" THEN <<wrk[u].hand.item>> ELSE <<>>)
            recs == SortedById({i \in items : i.photo = svc[u].photo.id})
        IN  /\ svc[u].photo \in photos
            /\ Len(sent) <= Len(recs)
            /\ \A k \in 1..Len(sent) : recs[k].name = sent[k]

C22_Witness ==
    \E u \in Uploads :
        /\ ReturnedLast(u, "ok")
        /\ wrk[u].pc = "send"
        /\ Len(EventNames(OutEvents(u))) = 2
        /\ Persisted(u) = <<1, 2, 3>>
        /\ wrk[u].hand = ItemEvent(3)

\* Scenario B: an upload to an empty area whose backend emits the three item
\* lines Milk, Butter, Orange Juice and reports completion, with every store
\* call succeeding, has run to its end.
ScenarioB(u) ==
    /\ ReturnedLast(u, "ok")
    /\ svc[u].pre.photos = {} /\ svc[u].pre.items = {}
    /\ svc[u].script = <<Milk, Butter, OrangeJuice>>
    /\ svc[u].endMode = "done"
    /\ wrk[u].pc = "done"
    /\ wrk[u].skipped = <<>>

\* C23 (as claimed): after Scenario B the area holds exactly those three items
\* in emission order (Milk, Butter, Orange Juice), as ListByAreaID returns
\* them, all linked to the one photo of the area, the new one.
C23_ThreeItemsInEmissionOrder ==
    \A u \in Uploads : ScenarioB(u) =>
        /\ ListedNames(items) = <<Milk, Butter, OrangeJuice>>
        /\ \A i \in items : i.photo = svc[u].photo.id
        /\ photos = {svc[u].photo}
        /\ GetLatestByAreaID(photos) = {svc[u].photo}

\* C23 (amended): after Scenario B the area holds exactly those three items,
\* persisted in emission order (Milk, Butter, Orange Juice by id) and returned
\* by ListByAreaID in the order of their names (Butter, Milk, Orange Juice),
\* all linked to the one photo of the area, the new one.
C23_ThreeItemsPersistedInEmissionOrder ==
    \A u \in Uploads : ScenarioB(u) =>
        /\ Cardinality(items) = 3
        /\ Persisted(u) = <<Milk, Butter, OrangeJuice>>
        /\ ListedNames(items) = <<Butter, Milk, OrangeJuice>>
        /\ \A i \in items : i.photo = svc[u].photo.id
        /\ photos = {svc[u].photo}
        /\ GetLatestByAreaID(photos) = {svc[u].photo}

C23_Witness ==
    \E u \in Uploads :
        /\ ScenarioB(u)
        /\ fwd[u].resp = <<Milk, Butter, OrangeJuice>>
        /\ fwd[u].done

\* C24: when an upload has completed successfully (the stream reported
\* completion and every item was stored), no item that was in the area before
\* the call is left, and the items present are exactly the items of the new
\* photo's stream, linked to the new photo.
C24_OldItemsReplaced ==
    \A u \in Uploads :
        (ReturnedLast(u, "ok") /\ svc[u].endMode = "done" /\ wrk[u].pc = "done"
            /\ wrk[u].skipped = <<>>) =>
            /\ items \cap svc[u].pre.items = {}
            /\ \A i \in items : i.photo = svc[u].photo.id
            /\ Persisted(u) = svc[u].script
            /\ Cardinality(items) = Len(svc[u].script)

C24_Witness ==
    \E u \in Uploads :
        /\ ReturnedLast(u, "ok") /\ svc[u].endMode = "done" /\ wrk[u].pc = "done"
        /\ svc[u].pre.items # {}
        /\ Persisted(u) = <<Milk, Butter>>
        /\ fwd[u].done

\* C25 (as claimed): whenever no upload is in flight and no DeletePhoto is
\* running, the items of the area are exactly the items linked to the photo
\* GetLatestByAreaID returns, whichever row that is; with no photo there are
\* no items.
C25_ItemsAreThoseOfCurrentPhoto ==
    ((\A u \in Uploads : AtRest(u)) /\ del.pc \in {"idle", "returned"}) =>
        \A p \in GetLatestByAreaID(photos) :
            IF p = NoPhoto THEN items = {}
            ELSE \A i \in items : i.photo = p.id

\* C27 (as claimed): DeletePhoto has found a photo and returned nil, and every
\* photo the uploads created was among the records it deleted (no upload has
\* created a photo since): the area has no photo and no items.
C27_DeletePhotoLeavesNothing ==
    (/\ del.pc = "returned" /\ del.outcome = "ok" /\ del.photo # NoPhoto
     /\ \A u \in Uploads : svc[u].photo # NoPhoto => svc[u].photo \in del.gone) =>
        /\ GetLatestByAreaID(photos) = {NoPhoto}
        /\ items = {}

\* Every racing upload has run to its end, and no worker has panicked.
RaceOver ==
    \A u \in Racers : svc[u].pc = "returned" /\ svc[u].outcome = "ok" /\ wrk[u].pc = "done"

IsSuffix(s, t) == Len(s) <= Len(t) /\ SubSeq(t, Len(t) - Len(s) + 1, Len(t)) = s

\* C26: concurrent uploads to one area are not kept apart, and the outcome of
\* the race is open.  What does hold when all of them have run to their end:
\* every item left is linked to the photo of one of them, each upload is left
\* with the items it stored after the last DeleteByAreaID of any upload (a
\* suffix of its stream), and one upload, the last to delete, has all of its
\* items.  The witness is the outcome the claim names: items linked to two
\* different photos.
C26_RaceOutcomes ==
    RaceOver =>
        /\ \A i \in items : \E u \in Racers : i.photo = svc[u].photo.id
        /\ \A u \in Racers : IsSuffix(Persisted(u), svc[u].script)
        /\ \E u \in Racers : Persisted(u) = svc[u].script

C26_Witness ==
    /\ RaceOver
    /\ \E i, j \in items : i.photo # j.photo
    /\ \E u \in Racers : Persisted(u) # svc[u].script

\* The positions of the separators of a line, and its fields read off them.
SepPos(L) == {i \in 1..Len(L) : L[i] = "|"}

NthSep(L, k) == CHOOSE i \in SepPos(L) : Cardinality({j \in SepPos(L) : j <= i}) = k

FieldCount(L) == Cardinality(SepPos(L)) + 1

Field(L, k) ==
    LET lo == IF k = 1 THEN 0 ELSE NthSep(L, k - 1)
        hi == IF k = FieldCount(L) THEN Len(L) + 1 ELSE NthSep(L, k)
    IN  SubSeq(L, lo + 1, hi - 1)

\* A text without its leading and trailing white space, by position.
Strip(s) ==
    LET ns == {i \in 1..Len(s) : ~IsSpace(s[i])}
    IN  IF ns = {} THEN <<>>
        ELSE SubSeq(s, CHOOSE i \in ns : \A j \in ns : i <= j,
                       CHOOSE i \in ns : \A j \in ns : j <= i)

\* C28: ParseLine yields no item exactly when the line is blank after
\* trimming, or has no separator, or its first field trims to empty; in every
\* other case it yields one item (whose name is not empty).
C28_NoItemIff ==
    prs.pc = "parsed" =>
        (prs.item = NoItem) <=>
            \/ Strip(prs.line) = <<>>
            \/ SepPos(prs.line) = {}
            \/ Strip(Field(prs.line, 1)) = <<>>

C28_Witness ==
    /\ prs.pc = "parsed"
    /\ prs.item = NoItem
    /\ Strip(prs.line) # <<>>
    /\ SepPos(prs.line) # {}

\* The line cut before its third separator.
FirstThree(L) ==
    IF FieldCount(L) <= 3 THEN L ELSE SubSeq(L, 1, NthSep(L, 3) - 1)

\* C29: for a line that yields an item, name, quantity and notes are the
\* trimmed first, second and third fields of the line, a missing second or
\* third field gives the empty text, and the line cut before its third
\* separator yields the same item.
C29_FieldsAreTrimmedSubstrings ==
    (prs.pc = "parsed" /\ prs.item # NoItem) =>
        /\ prs.item.name = Strip(Field(prs.line, 1))
        /\ prs.item.quantity =
              IF FieldCount(prs.line) >= 2 THEN Strip(Field(prs.line, 2)) ELSE <<>>
        /\ prs.item.notes =
              IF FieldCount(prs.line) >= 3 THEN Strip(Field(prs.line, 3)) ELSE <<>>
        /\ prs.item = ParseLine(FirstThree(prs.line))

C29_Witness ==
    /\ prs.pc = "parsed"
    /\ FieldCount(prs.line) >= 4
    /\ Strip(Field(prs.line, 4)) # <<>>
    /\ prs.item.name # <<>> /\ prs.item.quantity # <<>> /\ prs.item.notes # <<>>
    /\ prs.item.notes # Strip(Field(prs.line, 4))

\* C30: ParseResponse of a text gives the items that ParseLine gives for the
\* lines of the text taken one at a time, in the same order.
C30_BatchStreamParity ==
    prs.pc = "done" => prs.batch = prs.streamed

C30_Witness ==
    /\ prs.pc = "done"
    /\ Len(prs.batch) >= 2
    /\ \E i \in 2..Len(prs.raw) : prs.raw[i - 1] = "\n" /\ prs.raw[i] = "\n"

\* The goroutine returns because ctx is cancelled: at the check after Scan, or
\* after a Scan that the cancellation aborted.
CtxReturn ==
    \/ CtxErr_Return
    \/ ScannerErr /\ ana.scanErr = "ctx"

\* C31 (as claimed): when the stream is closed because ctx was cancelled, no
\* event, item or error, has been sent after the cancellation.
C31_NoEventAfterCancel ==
    [][CtxReturn => ana'.late = {}]_vars

\* C32: a text sent in chunks and followed by the completion marker gives the
\* items of ParseResponse of the text, in order, wherever the chunks are cut.
C32_ChunkingDoesNotMatter ==
    ana.closed =>
        /\ ana.seen = prs.raw
        /\ EventNames(ana.sent) = ParseResponse(prs.raw)
        /\ \A i \in 1..Len(ana.sent) : ~ana.sent[i].err

C32_Witness ==
    /\ ana.closed
    /\ Len(ana.sent) = 2
    /\ Len(ana.body) >= 4
    /\ \E i \in 1..Len(ana.body) : ana.body[i].text = <<"|">>

\* The goroutine stopped reading at the backend's completion marker: Ollama's
\* done chunk, Claude's "data: [DONE]".
Completed ==
    /\ ana.pos > 0
    /\ \/ ana.kind = "ollama" /\ CurLine.kind = "chunk" /\ CurLine.done
       \/ ana.kind = "claude" /\ CurLine = DoneLine

\* C33 (as claimed): the trailing line is flushed only when the backend
\* reported completion: then the items sent are those of the whole text, the
\* item of the trailing line last; a stream that ends without the completion
\* marker sends the items of its newline-terminated lines and nothing else.
C33_TrailingFlushOnlyOnCompletion ==
    /\ (ana.closed /\ Completed /\ ~ana.cancelled) =>
           EventNames(ana.sent) = ParseResponse(ana.seen)
    /\ (ana.closed /\ ~Completed) =>
           EventNames(ana.sent) = CompleteLines(ana.seen)

\* The photo of the area created last: ids are handed out in increasing order
\* (AUTOINCREMENT).
MostRecentlyCreated(ps) == {p \in ps : \A q \in ps : q.id <= p.id}

\* C34 (as claimed): the area's current photo is uniquely determined and is
\* the one created last, however close in time the photos were created.
C34_LatestIsMostRecentlyCreated ==
    photos # {} => GetLatestByAreaID(photos) = MostRecentlyCreated(photos)

\* C35: with a backend stream that ends and a handler that keeps receiving,
\* a started pipeline terminates: the adapter's channel is closed, out is
\* closed and the handler has returned.  The worker closes out only when the
\* adapter's channel is closed and drained or when it has an error event in
\* hand, and does nothing after it.
C35_PipelineTerminates ==
    /\ \A u \in Requests :
          (wrk[u].pc = "recv") ~>
              (adp[u].closed /\ wrk[u].closed /\ fwd[u].pc = "returned")
    /\ [][\A u \in Requests :
             /\ (~wrk[u].closed /\ wrk'[u].closed) =>
                   \/ adp[u].closed /\ adp[u].ch = <<>>
                   \/ wrk[u].hand.err
             /\ wrk[u].closed => (wrk'[u].closed /\ wrk'[u].pc = "done")]_vars

C35_Witness ==
    \E u \in Requests :
        /\ adp[u].closed /\ wrk[u].closed /\ fwd[u].pc = "returned"
        /\ fwd[u].done
        /\ Len(fwd[u].resp) = LongEmit

\* C36 (as claimed): once AnalyzeStream has returned a channel, the channel is
\* received from until it is closed and empty, so the adapter goroutine gets
\* to close it; also when deleting the old items fails.
C36_AdapterChannelDrained ==
    \A u \in Requests :
        svc[u].accepted ~> (adp[u].closed /\ adp[u].ch = <<>>)

\* The call of u completes its DeleteByAreaID in this step.
DeleteDone(u) == svc[u].pc = "delete" /\ svc'[u].deletes = svc[u].deletes + 1

ReferencedKeys == {p.key : p \in photos}

\* C38 (as claimed): when every operation has completed, every blob in the
\* photo storage is referenced by a photo record and every photo record
\* references a blob that exists.
C38_NoOrphanNoDangling ==
    ((\A u \in Uploads : AtRest(u)) /\ del.pc \in {"idle", "returned"}) =>
        blobs = ReferencedKeys

====
